---- MODULE Spec2Model ----
(***************************************************************************)
(* Verification model of Abe/DataStore.py: the storage core of the block   *)
(* chain indexer.                                                          *)
(*                                                                         *)
(* The module holds several specifications over one set of variables:      *)
(*   SpecSeq, SpecSeqFair  counter-table identifier allocation             *)
(*                         (_new_id_update) by several processes sharing   *)
(*                         one abe_sequences row of the backend            *)
(*   SpecCreate            create_sequence / new_id / drop_sequence of one *)
(*                         store under each sequence_type                  *)
(*   SpecConn              the connection and transaction manager          *)
(*                         (_execute, sql, ddl, commit, rollback,          *)
(*                         reconnect) of one store                         *)
(*   SpecBinary            the binary and hash encoders and decoders of    *)
(*                         every binary_type                               *)
(*   SpecNegotiate         the negotiation of the dialect (configure)      *)
(*   SpecProbe             one probe of the negotiation and the scratch    *)
(*                         objects it creates in the backend               *)
(*   SpecStartup           construction of the store, run after run:       *)
(*                         _read_config, initialize, _set_sql_flavour      *)
(*   SpecVarchar,          the search for the widest VARCHAR               *)
(*   SpecVarcharFair       (configure_max_varchar)                         *)
(*   SpecLimit             selectall under each limit_style                *)
(*                         (emulate_limit)                                 *)
(*   SpecLock              get_lock and release_lock of several processes  *)
(*   SpecCache             the block metadata cache (cache_block,          *)
(*                         _load_block)                                    *)
(*   SpecChain             insertion of blocks: orphans, chain candidacy,  *)
(*                         reorganization, Merkle-root validation          *)
(*   SpecRewrite           the rewriting of statements by sql() and ddl(): *)
(*                         placeholders, bit strings, large-text types     *)
(*   SpecStatement         the statement cache under rebuilds of the       *)
(*                         flavour (_set_sql_flavour, sql)                 *)
(*   SpecCounter           the counter table in the store's transaction    *)
(*                         (_create_sequence_update, _new_id_update)       *)
(* Each specification moves its own variables and leaves the others at     *)
(* their initial values.                                                   *)
(***************************************************************************)
EXTENDS Integers, Sequences, FiniteSets, TLC

(***************************************************************************)
(* Bounds of the model.                                                    *)
(***************************************************************************)
\* processes (stores) sharing the backend
NumProcs == 2
\* allocate(key) calls started in one behaviour, over all processes
MaxCalls == 3
\* largest committed nextid of the shared row in the initial state
MaxSeed == 2

Procs == 1 .. NumProcs
\* Python's None, and SQL's NULL
None == -1
\* store.config.get(name) of a name the configuration does not hold
Unset == "None"

VARIABLES
    \* ---- SpecSeq: the abe_sequences row of one key and its callers
    nextid,        \* committed nextid of the row
    writer,        \* process whose open transaction has updated the row, or None
    pendingid,     \* the writer's uncommitted nextid (None when no writer)
    pc,            \* per process: position in _new_id_update
    row,           \* per process: the value read by its last SELECT (ret = row[0])
    in_txn,        \* per process: store.in_transaction
    calls,         \* allocate calls started so far
    returned,      \* history: <<process, value>> of every completed allocate, in order
    effective,     \* history: returned values whose UPDATE has not been rolled back
    nopen,         \* history: how many of them belong to the writer's open transaction
    contention,    \* history: lost races logged ("Contention on abe_sequences")
    beaten,        \* history, per process: another caller's allocation was committed
                   \* since the process's last SELECT
    \* ---- SpecCreate: one store, the table named key and its sequence
    sequence_type, \* store.config['sequence_type']
    tbl,           \* primary keys (key_id) of the rows of table key
    seq_table,     \* table abe_sequences exists
    seq_row,       \* nextid of the abe_sequences row of key (None: no row)
    seq_obj,       \* next value of the sequence object key_seq (None: no sequence)
    auto_next,     \* AUTO_INCREMENT counter of table key_seq (None: no table)
    auto_rows,     \* ids of the rows of table key_seq
    abe_dual,      \* number of rows of table abe_dual (None: no table)
    allocs,        \* new_id calls made so far
    seed_max,      \* history: largest key_id when the sequence was created (0: none)
    first_id,      \* history: first value allocated since that create (None: none yet)
    cr_last,       \* history: the last sequence operation and its outcome
    \* ---- SpecConn: the connection and transaction state of one store
    conn,          \* store.conn: the number of the connection object
    cursor,        \* store.cursor: the number of the connection it was opened on
    opened,        \* connections opened so far by store.connect()
    closed,        \* store.cursor or its connection has been closed
    in_transaction,     \* store.in_transaction
    auto_reconnect,     \* store.auto_reconnect
    ddl_implicit_commit,    \* store.config['ddl_implicit_commit']
    last,          \* history: the last operation, what the backend answered, its outcome
    \* ---- the dialect of one store
    module,        \* store.module: the driver's paramstyle, and whether it has LOB
    args,          \* store.args
    config,        \* store.config
    flavour,       \* what _set_sql_flavour has assigned to the store
    \* ---- SpecBinary: one value through an encoder and its decoders
    bin_fn,        \* "bin": binin, binout, binout_hex; "hash": hashin, hashout, hashout_hex
    bin_x,         \* the caller's value
    bin_db,        \* the value the encoder gives to the database
    bin_out,       \* binout, or hashout, of that value
    bin_hex,       \* binout_hex, or hashout_hex, of that value
    bin_db_hex,    \* binin_hex, or hashin_hex, of that hex text
    bin_pc,        \* the next step
    \* ---- SpecVarchar: configure_max_varchar and the backend it probes
    monotone,      \* the backend takes a width exactly when it is at most backend_max
    backend_max,   \* the widest VARCHAR a monotone backend takes
    lo,            \* configure_max_varchar: lo
    hi,            \* configure_max_varchar: hi
    mid,           \* configure_max_varchar: mid
    probes,        \* history: <<width, outcome>> of every probe, in order
    w_pc,          \* the next step
    \* ---- SpecNegotiate: configure()
    neg_pc,        \* the configure_* function that runs, the candidate it is at,
                   \* and the exception that ended the negotiation ("": none)
    probed,        \* history: every probe made, with its candidate and its result
    \* ---- SpecProbe: one probe and the scratch objects of the backend
    probe,         \* the probing function that runs
    implicit_commit,    \* the backend commits at every DDL statement
    db,            \* the objects that exist: committed, and as the session sees them
    p_pc,          \* the block of the probe that runs and the step it is at
    p_result,      \* what the probe returns ("raised": it is left by an exception)
    faithful,      \* history: no statement has failed that the backend could run
    \* ---- SpecStartup: construction of the store, run after run
    backend,       \* the backend: DDL commits, '' is kept as NULL
    stored,        \* the database: schema objects and rows of configvar, committed
                   \* and as the session sees them, and the legacy table config
    at_start,      \* history: the database as the run found it
    run,           \* the number of the run
    s_pc,          \* where __init__ is
    did,           \* history: the steps of the run
    read,          \* history: what _read_config returned in the run
    negotiated,    \* history: the flavour at the end of the run that initialized
    raised,        \* the message of the exception that left __init__
    \* ---- SpecLimit: selectall under a limit_style
    limit_style,   \* config['limit_style']: 'native' or 'emulated'
    lim_table,     \* the ids of the rows of the table that is read
    lim_stmt,      \* the statement given to selectall, clause by clause
    lim_params,    \* the parameters given to selectall
    lim_sent,      \* what the call handed on to the backend (None: not called)
    lim_rows,      \* what selectall returned (None: not called)
    lim_pc,         \* "call": selectall is about to run, "done": it has returned
    \* ---- SpecLock: get_lock and release_lock of several processes
    concurrent,    \* the backend supports concurrent updates (row locks)
    lock_row,      \* abe_lock has its row lock_id = 1
    lock_pid,      \* the committed pid of that row (None: NULL)
    lock_writer,   \* the process whose lock connection has written the row and
                   \* not ended its transaction (0: none), and so locks it
    below_abe26,   \* per process: version_below('Abe26')
    lock_conn,     \* per process: its lock connection: "none", "open", "closed"
    store_txn,     \* per process: store.conn has an uncommitted INSERT
    lock_pc,       \* per process: where it is in get_lock, or what it holds
    acquired,       \* history: the processes get_lock gave a connection, in order
    \* ---- SpecCache: the block metadata cache
    _blocks,       \* store._blocks: block id -> {height, prev_id, search_id}
    block_rows,    \* the rows of the table block, by block_id
    row_reads,     \* history: the row reads of the table block made so far
    cache_op,      \* history: the last operation, its block id and whether the
                   \* id was in the cache
    cache_ops,      \* history: the number of operations made so far
    \* ---- SpecChain: insertion of blocks into the chain index
    hashPrev,      \* the blocks offered, by hash: the hash of the parent (0: none)
    bad_merkle,    \* the hash of the block whose declared Merkle root is wrong
                   \* (0: none)
    block_table,   \* the table block, by block_id
    orphan_block,  \* the rows of the table orphan_block
    chain_candidate,    \* the rows of the table chain_candidate of the chain
    chain_last_block_id,    \* chain.chain_last_block_id (None: NULL)
    tip_before,    \* history: chain_last_block_id before the last insertion
    import_raised,  \* the exception that left the last insertion
    \* ---- SpecRewrite: the rewriting of statements by sql() and ddl()
    rw_stmt,       \* the statement given to sql() or ddl(), piece by piece
    rw_out,        \* the statement handed to cursor.execute
    rw_pc,          \* "call", or the function that has rewritten: "sql", "ddl"
    \* ---- SpecStatement: the statement cache and the rebuilding of the flavour
    _sql_cache,    \* store._sql_cache: statement text -> rewritten statement
    transformed,   \* the statements sql_transform was called with since the last rebuild
    st_last,        \* the last call: its operation, statement and outcome
    \* ---- SpecCounter: the counter table abe_sequences and the store's transaction
    ct_db,         \* the committed abe_sequences: whether it exists, and nextid by key
    ct_work,       \* abe_sequences as the store's connection sees it
    ct_last        \* the last call: its operation, key, outcome and statements

seqVars == <<nextid, writer, pendingid, pc, row, in_txn, calls, returned,
             effective, nopen, contention, beaten>>

createVars == <<sequence_type, tbl, seq_table, seq_row, seq_obj, auto_next, auto_rows,
                abe_dual, allocs, seed_max, first_id, cr_last>>

connVars == <<conn, cursor, opened, closed, in_transaction, auto_reconnect,
              ddl_implicit_commit, last>>

dialectVars == <<module, args, config, flavour>>

binVars == <<bin_fn, bin_x, bin_db, bin_out, bin_hex, bin_db_hex, bin_pc>>

widthVars == <<monotone, backend_max, lo, hi, mid, probes, w_pc>>

negVars == <<neg_pc, probed>>

probeVars == <<probe, implicit_commit, db, p_pc, p_result, faithful>>

startVars == <<backend, stored, at_start, run, s_pc, did, read, negotiated, raised>>

limitVars == <<limit_style, lim_table, lim_stmt, lim_params, lim_sent, lim_rows, lim_pc>>

lockVars == <<concurrent, lock_row, lock_pid, lock_writer, below_abe26, lock_conn, store_txn, lock_pc, acquired>>

cacheVars == <<_blocks, block_rows, row_reads, cache_op, cache_ops>>

chainVars == <<hashPrev, bad_merkle, block_table, orphan_block, chain_candidate,
               chain_last_block_id, tip_before, import_raised>>

rewriteVars == <<rw_stmt, rw_out, rw_pc>>

statementVars == <<_sql_cache, transformed, st_last>>

counterVars == <<ct_db, ct_work, ct_last>>

vars == <<seqVars, createVars, connVars, dialectVars, binVars, widthVars, negVars,
          probeVars, startVars, limitVars, lockVars, cacheVars, chainVars, rewriteVars,
          statementVars, counterVars>>

\* what the actions of one specification leave alone
notSeqVars == <<createVars, connVars, dialectVars, binVars, widthVars, negVars,
                probeVars, startVars, limitVars, lockVars, cacheVars, chainVars,
                rewriteVars, statementVars, counterVars>>
notCreateVars == <<seqVars, connVars, dialectVars, binVars, widthVars, negVars,
                   probeVars, startVars, limitVars, lockVars, cacheVars, chainVars,
                   rewriteVars, statementVars, counterVars>>
notConnVars == <<seqVars, createVars, dialectVars, binVars, widthVars, negVars,
                 probeVars, startVars, limitVars, lockVars, cacheVars, chainVars,
                 rewriteVars, statementVars, counterVars>>
notCounterVars == <<seqVars, createVars, connVars, dialectVars, binVars, widthVars,
                    negVars, probeVars, startVars, limitVars, lockVars, cacheVars,
                    chainVars, rewriteVars, statementVars>>
notStatementVars == <<seqVars, createVars, connVars, binVars, widthVars, negVars,
                      probeVars, startVars, limitVars, lockVars, cacheVars, chainVars,
                      rewriteVars, counterVars>>
notRewriteVars == <<seqVars, createVars, connVars, binVars, widthVars, negVars,
                    probeVars, startVars, limitVars, lockVars, cacheVars, chainVars,
                    statementVars, counterVars>>
notChainVars == <<seqVars, createVars, connVars, dialectVars, binVars, widthVars,
                  negVars, probeVars, startVars, limitVars, lockVars, cacheVars,
                  rewriteVars, statementVars, counterVars>>
notCacheVars == <<seqVars, createVars, connVars, dialectVars, binVars, widthVars,
                  negVars, probeVars, startVars, limitVars, lockVars, chainVars,
                  rewriteVars, statementVars, counterVars>>
notLockVars == <<seqVars, createVars, connVars, dialectVars, binVars, widthVars,
                 negVars, probeVars, startVars, limitVars, cacheVars, chainVars,
                 rewriteVars, statementVars, counterVars>>
notLimitVars == <<seqVars, createVars, connVars, dialectVars, binVars, widthVars,
                  negVars, probeVars, startVars, lockVars, cacheVars, chainVars,
                  rewriteVars, statementVars, counterVars>>
notStartVars == <<seqVars, createVars, connVars, binVars, widthVars, negVars,
                  probeVars, limitVars, lockVars, cacheVars, chainVars, rewriteVars,
                  statementVars, counterVars>>
notProbeVars == <<seqVars, createVars, connVars, binVars, widthVars, negVars,
                  startVars, limitVars, lockVars, cacheVars, chainVars, rewriteVars,
                  statementVars, counterVars>>
notNegVars == <<seqVars, createVars, connVars, binVars, widthVars, probeVars,
                startVars, limitVars, lockVars, cacheVars, chainVars, rewriteVars,
                statementVars, counterVars>>
notWidthVars == <<seqVars, createVars, connVars, binVars, negVars, probeVars,
                  startVars, limitVars, lockVars, cacheVars, chainVars, rewriteVars,
                  statementVars, counterVars>>
notBinVars == <<seqVars, createVars, connVars, widthVars, negVars, probeVars,
                startVars, limitVars, lockVars, cacheVars, chainVars, rewriteVars,
                statementVars, counterVars>>

(***************************************************************************)
(* Counter-table allocation: _new_id_update.                               *)
(*                                                                         *)
(* The backend is modelled as SQL with READ COMMITTED row semantics: a     *)
(* SELECT sees the last committed row or the reader's own uncommitted      *)
(* write; an UPDATE of a row another open transaction has written waits    *)
(* for that transaction to end and then evaluates its WHERE clause on the  *)
(* row as it is then.                                                      *)
(***************************************************************************)

\* "SELECT nextid FROM abe_sequences WHERE sequence_key = ?": the row as p sees it
SelectNextid(p) == IF writer = p THEN pendingid ELSE nextid

\* cursor.rowcount of "UPDATE ... SET nextid = nextid + 1 WHERE sequence_key = ?
\* AND nextid = ?" with parameter ret
\* (the rowcount the UPDATE would give without its "AND nextid = ?")
UpdateRowcountNoCheck(p, ret) == 1
UpdateRowcount(p, ret) == IF SelectNextid(p) = ret THEN 1 ELSE 0

\* the row value the UPDATE leaves: "SET nextid = nextid + 1"
UpdateSet(cur) == cur + 1

\* what _new_id_update does with the rowcount: return ret, or log and loop
\* (a variant that raises on a lost race instead of looping)
AfterUpdateRaise(rowcount) == IF rowcount = 1 THEN "return" ELSE "raise"
AfterUpdate(rowcount) == IF rowcount = 1 THEN "return" ELSE "retry"

SeqStart ==
    /\ nextid \in 1 .. MaxSeed
    /\ writer = None
    /\ pendingid = None
    /\ pc = [p \in Procs |-> "idle"]
    /\ row = [p \in Procs |-> None]
    /\ in_txn = [p \in Procs |-> FALSE]
    /\ calls = 0
    /\ returned = <<>>
    /\ effective = <<>>
    /\ nopen = 0
    /\ contention = 0
    /\ beaten = [p \in Procs |-> FALSE]

\* a caller enters _new_id_update(key)
NewIdCall(p) ==
    /\ pc[p] = "idle"
    /\ calls < MaxCalls
    /\ calls' = calls + 1
    /\ pc' = [pc EXCEPT ![p] = "select"]
    /\ UNCHANGED <<nextid, writer, pendingid, row, in_txn, returned, effective,
                   nopen, contention, beaten>>
    /\ UNCHANGED notSeqVars

\* row = store.selectrow("SELECT nextid ..."); ret = row[0]
NewIdSelect(p) ==
    /\ pc[p] = "select"
    /\ row' = [row EXCEPT ![p] = SelectNextid(p)]
    /\ in_txn' = [in_txn EXCEPT ![p] = TRUE]
    /\ beaten' = [beaten EXCEPT ![p] = FALSE]
    /\ pc' = [pc EXCEPT ![p] = "update"]
    /\ UNCHANGED <<nextid, writer, pendingid, calls, returned, effective, nopen,
                   contention>>
    /\ UNCHANGED notSeqVars

\* store.sql("UPDATE ... AND nextid = ?", (key, ret)); rowcount == 1 returns ret
NewIdUpdate(p) ==
    /\ pc[p] = "update"
    /\ writer \in {None, p}
    /\ in_txn' = [in_txn EXCEPT ![p] = TRUE]
    /\ LET rowcount == UpdateRowcount(p, row[p])
           then == AfterUpdate(rowcount)
       IN  /\ IF rowcount = 1
                 THEN /\ writer' = p
                      /\ pendingid' = UpdateSet(SelectNextid(p))
                 ELSE UNCHANGED <<writer, pendingid>>
           /\ IF then = "return"
                 THEN /\ returned' = Append(returned, <<p, row[p]>>)
                      /\ effective' = Append(effective, row[p])
                      /\ nopen' = nopen + 1
                      /\ pc' = [pc EXCEPT ![p] = "idle"]
                      /\ UNCHANGED contention
                 ELSE /\ UNCHANGED <<returned, effective, nopen>>
                      /\ contention' = contention + 1
                      /\ pc' = [pc EXCEPT ![p] = IF then = "retry" THEN "select"
                                                                    ELSE "raised"]
    /\ UNCHANGED <<nextid, row, calls, beaten>>
    /\ UNCHANGED notSeqVars

\* store.commit() by the caller, between two calls
SeqCommit(p) ==
    /\ pc[p] = "idle"
    /\ in_txn[p]
    /\ in_txn' = [in_txn EXCEPT ![p] = FALSE]
    /\ IF writer = p
          THEN /\ nextid' = pendingid
               /\ writer' = None
               /\ pendingid' = None
               /\ nopen' = 0
               /\ beaten' = [q \in Procs |-> IF q = p THEN beaten[q] ELSE TRUE]
          ELSE UNCHANGED <<nextid, writer, pendingid, nopen, beaten>>
    /\ UNCHANGED <<pc, row, calls, returned, effective, contention>>
    /\ UNCHANGED notSeqVars

\* the allocations that stay in effect when the writer's transaction is undone
Committed(log, n) == SubSeq(log, 1, Len(log) - n)

\* store.rollback() by the caller, between two calls
SeqRollback(p) ==
    /\ pc[p] = "idle"
    /\ in_txn[p]
    /\ in_txn' = [in_txn EXCEPT ![p] = FALSE]
    /\ IF writer = p
          THEN /\ writer' = None
               /\ pendingid' = None
               /\ effective' = Committed(effective, nopen)
               /\ nopen' = 0
          ELSE UNCHANGED <<writer, pendingid, effective, nopen>>
    /\ UNCHANGED <<nextid, pc, row, calls, returned, contention, beaten>>
    /\ UNCHANGED notSeqVars


(***************************************************************************)
(* Sequence creation and allocation of one store, under each               *)
(* sequence_type: create_sequence, new_id, drop_sequence.                  *)
(***************************************************************************)
\* largest primary key a row of table key can have in the model
MaxPk == 3
\* new_id calls in one behaviour
MaxAllocs == 3
\* _new_id_mysql prunes key_seq when the new id is a multiple of this
PruneEvery == 1000

SequenceTypes == {"update", "mysql", "oracle", "postgres", "nvf", "db2"}

SetMax(S) == CHOOSE m \in S : \A x \in S : x <= m

\* "SELECT MAX(key_id) FROM key": NULL on an empty table
SelectMax(rows) == IF rows = {} THEN None ELSE SetMax(rows)

\* _get_sequence_initial_value: 1 if ret is None else ret + 1
\* (a variant that seeds at the largest key itself)
InitialValueNoIncrement(ret) == IF ret = None THEN 1 ELSE ret
InitialValue(ret) == IF ret = None THEN 1 ELSE ret + 1

\* _set_sql_flavour: the create_sequence, new_id and drop_sequence a sequence_type selects
CreateImpl(val) ==
    CASE val \in {Unset, "update"} -> "_create_sequence_update"
      [] val = "mysql" -> "_create_sequence_mysql"
      [] val = "db2" -> "_create_sequence_db2"
      [] val \in {"oracle", "nvf", "postgres"} -> "_create_sequence"
      [] OTHER -> "unsupported"

NewIdImpl(val) ==
    CASE val \in {Unset, "update"} -> "_new_id_update"
      [] val = "mysql" -> "_new_id_mysql"
      [] val = "oracle" -> "_new_id_oracle"
      [] val = "nvf" -> "_new_id_nvf"
      [] val = "postgres" -> "_new_id_postgres"
      [] val = "db2" -> "_new_id_db2"
      [] OTHER -> "unsupported"

DropImpl(val) ==
    CASE val \in {Unset, "update"} -> "_drop_sequence_update"
      [] val = "mysql" -> "_drop_sequence_mysql"
      [] val \in {"oracle", "nvf", "postgres", "db2"} -> "_drop_sequence"
      [] OTHER -> "unsupported"

CreateStart ==
    /\ sequence_type \in SequenceTypes
    /\ tbl \in SUBSET (1 .. MaxPk)
    /\ seq_table \in BOOLEAN
    /\ seq_row = None
    /\ seq_obj = None
    /\ auto_next = None
    /\ auto_rows = {}
    /\ abe_dual \in {None, 0, 1}
    /\ allocs = 0
    /\ seed_max = None
    /\ first_id = None
    /\ cr_last = [op |-> "init", result |-> "returned", value |-> None]

\* the variables of SpecCreate while another specification runs
CreateIdle ==
    /\ sequence_type = "update"
    /\ tbl = {}
    /\ seq_table = TRUE
    /\ seq_row = None
    /\ seq_obj = None
    /\ auto_next = None
    /\ auto_rows = {}
    /\ abe_dual = None
    /\ allocs = 0
    /\ seed_max = None
    /\ first_id = None
    /\ cr_last = [op |-> "init", result |-> "returned", value |-> None]

Outcome(op, result, value) == [op |-> op, result |-> result, value |-> value]

\* the store inserts a row with primary key id into table key
InsertRow(id) ==
    /\ id \notin tbl
    /\ tbl' = tbl \cup {id}
    /\ UNCHANGED <<sequence_type, seq_table, seq_row, seq_obj, auto_next, auto_rows,
                   abe_dual, allocs, seed_max, first_id, cr_last>>
    /\ UNCHANGED notCreateVars

\* the history of a create that succeeded
Seeded ==
    /\ seed_max' = IF tbl = {} THEN 0 ELSE SetMax(tbl)
    /\ first_id' = None
    /\ cr_last' = Outcome("create", "returned", None)

CreateFailed ==
    /\ cr_last' = Outcome("create", "raised", None)
    /\ UNCHANGED <<seed_max, first_id>>

\* _create_sequence_update: INSERT the row; on failure roll back, create table
\* abe_sequences and INSERT again; if that CREATE TABLE fails too, raise
CreateSequenceUpdate ==
    /\ CreateImpl(sequence_type) = "_create_sequence_update"
    /\ LET ret == InitialValue(SelectMax(tbl))
       IN  IF seq_table /\ seq_row = None
              THEN seq_row' = ret /\ seq_table' = seq_table /\ Seeded
           ELSE IF ~seq_table
              THEN seq_table' = TRUE /\ seq_row' = ret /\ Seeded
           ELSE UNCHANGED <<seq_table, seq_row>> /\ CreateFailed
    /\ UNCHANGED <<sequence_type, tbl, seq_obj, auto_next, auto_rows, abe_dual, allocs>>
    /\ UNCHANGED notCreateVars

\* _create_sequence: ddl("CREATE SEQUENCE key_seq START WITH initial value")
CreateSequenceNative ==
    /\ CreateImpl(sequence_type) = "_create_sequence"
    /\ IF seq_obj = None
          THEN seq_obj' = InitialValue(SelectMax(tbl)) /\ Seeded
          ELSE UNCHANGED seq_obj /\ CreateFailed
    /\ UNCHANGED <<sequence_type, tbl, seq_table, seq_row, auto_next, auto_rows,
                   abe_dual, allocs>>
    /\ UNCHANGED notCreateVars

\* _create_sequence_db2: make abe_dual hold a row, then _create_sequence
CreateSequenceDb2 ==
    /\ CreateImpl(sequence_type) = "_create_sequence_db2"
    /\ abe_dual' = IF abe_dual = None THEN 1
                   ELSE IF abe_dual # 1 THEN abe_dual + 1 ELSE abe_dual
    /\ IF seq_obj = None
          THEN seq_obj' = InitialValue(SelectMax(tbl)) /\ Seeded
          ELSE UNCHANGED seq_obj /\ CreateFailed
    /\ UNCHANGED <<sequence_type, tbl, seq_table, seq_row, auto_next, auto_rows, allocs>>
    /\ UNCHANGED notCreateVars

\* _create_sequence_mysql: ddl("CREATE TABLE key_seq (id BIGINT AUTO_INCREMENT
\* PRIMARY KEY) AUTO_INCREMENT=initial value")
CreateSequenceMysql ==
    /\ CreateImpl(sequence_type) = "_create_sequence_mysql"
    /\ IF auto_next = None
          THEN auto_next' = InitialValue(SelectMax(tbl)) /\ auto_rows' = {} /\ Seeded
          ELSE UNCHANGED <<auto_next, auto_rows>> /\ CreateFailed
    /\ UNCHANGED <<sequence_type, tbl, seq_table, seq_row, seq_obj, abe_dual, allocs>>
    /\ UNCHANGED notCreateVars

\* the history of a new_id that returned value
Allocated(value) ==
    /\ first_id' = IF first_id = None /\ seed_max # None THEN value ELSE first_id
    /\ cr_last' = Outcome("new_id", "returned", value)
    /\ UNCHANGED seed_max

NewIdFailed ==
    /\ cr_last' = Outcome("new_id", "raised", None)
    /\ UNCHANGED <<seed_max, first_id>>

\* _new_id_update by the only process using the row: the UPDATE matches the
\* value just read
NewIdUpdateAlone ==
    /\ NewIdImpl(sequence_type) = "_new_id_update"
    /\ allocs < MaxAllocs
    /\ allocs' = allocs + 1
    /\ IF seq_table /\ seq_row # None
          THEN seq_row' = UpdateSet(seq_row) /\ Allocated(seq_row)
          ELSE UNCHANGED seq_row /\ NewIdFailed
    /\ UNCHANGED <<sequence_type, tbl, seq_table, seq_obj, auto_next, auto_rows, abe_dual>>
    /\ UNCHANGED notCreateVars

\* _new_id_oracle, _new_id_nvf, _new_id_postgres, _new_id_db2: the next value
\* of the sequence object (db2 selects it FROM abe_dual)
NewIdNative ==
    /\ NewIdImpl(sequence_type)
          \in {"_new_id_oracle", "_new_id_nvf", "_new_id_postgres", "_new_id_db2"}
    /\ allocs < MaxAllocs
    /\ allocs' = allocs + 1
    /\ IF seq_obj # None /\ (NewIdImpl(sequence_type) = "_new_id_db2" => abe_dual = 1)
          THEN seq_obj' = seq_obj + 1 /\ Allocated(seq_obj)
          ELSE UNCHANGED seq_obj /\ NewIdFailed
    /\ UNCHANGED <<sequence_type, tbl, seq_table, seq_row, auto_next, auto_rows, abe_dual>>
    /\ UNCHANGED notCreateVars

\* _new_id_mysql: INSERT an empty row into key_seq, SELECT LAST_INSERT_ID(),
\* and every PruneEvery ids DELETE the older rows
NewIdMysql ==
    /\ NewIdImpl(sequence_type) = "_new_id_mysql"
    /\ allocs < MaxAllocs
    /\ allocs' = allocs + 1
    /\ IF auto_next # None
          THEN /\ auto_next' = auto_next + 1
               /\ auto_rows' = IF auto_next % PruneEvery = 0
                                  THEN {auto_next}
                                  ELSE auto_rows \cup {auto_next}
               /\ Allocated(auto_next)
          ELSE UNCHANGED <<auto_next, auto_rows>> /\ NewIdFailed
    /\ UNCHANGED <<sequence_type, tbl, seq_table, seq_row, seq_obj, abe_dual>>
    /\ UNCHANGED notCreateVars

Dropped(ok) ==
    /\ cr_last' = Outcome("drop", IF ok THEN "returned" ELSE "raised", None)
    /\ seed_max' = IF ok THEN None ELSE seed_max
    /\ first_id' = IF ok THEN None ELSE first_id

\* _drop_sequence_update, _drop_sequence, _drop_sequence_mysql
DropSequence ==
    /\ CASE DropImpl(sequence_type) = "_drop_sequence_update" ->
                /\ seq_row' = IF seq_table THEN None ELSE seq_row
                /\ Dropped(seq_table)
                /\ UNCHANGED <<seq_obj, auto_next, auto_rows>>
         [] DropImpl(sequence_type) = "_drop_sequence" ->
                /\ seq_obj' = None
                /\ Dropped(seq_obj # None)
                /\ UNCHANGED <<seq_row, auto_next, auto_rows>>
         [] DropImpl(sequence_type) = "_drop_sequence_mysql" ->
                /\ auto_next' = None
                /\ auto_rows' = {}
                /\ Dropped(auto_next # None)
                /\ UNCHANGED <<seq_row, seq_obj>>
    /\ UNCHANGED <<sequence_type, tbl, seq_table, abe_dual, allocs>>
    /\ UNCHANGED notCreateVars


(***************************************************************************)
(* Connection and transaction manager of one store: init_conn, reconnect,  *)
(* _execute, sql, ddl, commit, rollback, close.                            *)
(*                                                                         *)
(* The backend answers every driver call with "ok" or with an exception    *)
(* class of the DB-API module; which one is the environment's choice.  A   *)
(* closed cursor never answers "ok".                                       *)
(***************************************************************************)
\* connections one behaviour may open
MaxConns == 3

Stmts == {"SELECT", "UPDATE"}
\* the statements sql() is called with, each with its parameters
SqlCalls == {<<"SELECT", <<>>>>, <<"UPDATE", <<1>>>>}
ErrorClasses == {"OperationalError", "InternalError", "ProgrammingError", "IntegrityError"}
ExecAnswers == {"ok"} \cup ErrorClasses
CloseAnswers == {"ok", "Error"}
OpenAnswers == {"ok", "connect raises", "cursor raises"}
Unasked == "unasked"

NoError == [class |-> "none", from |-> "none", attempt |-> 0]
Error(class, from, attempt) == [class |-> class, from |-> from, attempt |-> attempt]

\* the fields of the store the manager works on
Store == [conn |-> conn, cursor |-> cursor, opened |-> opened, closed |-> closed,
          in_transaction |-> in_transaction]

\* init_conn: store.conn = store.connect(); store.cursor = store.conn.cursor();
\* store.in_transaction = False
init_conn(st, open) ==
    CASE open = "ok" ->
            [st |-> [st EXCEPT !.conn = st.opened + 1, !.cursor = st.opened + 1,
                               !.opened = st.opened + 1, !.closed = FALSE,
                               !.in_transaction = FALSE],
             exc |-> NoError]
      [] open = "connect raises" ->
            [st |-> st, exc |-> Error("OperationalError", "connect", 1)]
      [] open = "cursor raises" ->
            [st |-> [st EXCEPT !.conn = st.opened + 1, !.opened = st.opened + 1],
             exc |-> Error("OperationalError", "cursor", 1)]
      [] OTHER -> [st |-> st, exc |-> Error("none", "unasked", 0)]

\* reconnect: close the cursor and the connection, swallowing what that
\* raises, then init_conn
\* (a variant whose close errors are not swallowed)
reconnectCloseRaises(st, cclose, kclose, open) ==
    IF cclose # "ok" \/ kclose # "ok"
       THEN [st |-> st, exc |-> Error("Error", "close", 1)]
       ELSE init_conn([st EXCEPT !.closed = TRUE], open)
reconnect(st, cclose, kclose, open) ==
    init_conn([st EXCEPT !.closed = st.closed \/ cclose = "ok" \/ kclose = "ok"], open)

\* _execute catches OperationalError, InternalError and ProgrammingError
Caught(class) == class \in {"OperationalError", "InternalError", "ProgrammingError"}

\* _execute: "if store.in_transaction or not store.auto_reconnect: raise"
\* (variants: the "not" dropped; the transaction test dropped)
RaiseAsIsMissingNot(in_tx, auto) == in_tx \/ auto
RaiseAsIsIgnoresTransaction(in_tx, auto) == ~auto
RaiseAsIs(in_tx, auto) == in_tx \/ ~auto

\* an answer the code asked the backend for
Asked(answer) == IF answer = Unasked THEN "missing" ELSE answer

Executed(stmt, params, st) == [stmt |-> stmt, params |-> params, cursor |-> st.cursor]

\* _execute(stmt, params) with the backend's answers: a1 to the first
\* cursor.execute, cclose, kclose and open to reconnect, a2 to the second
\* cursor.execute.  Answers that are not asked for are recorded as Unasked.
execute(st, auto, stmt, params, a1, cclose, kclose, open, a2) ==
    LET first == <<Executed(stmt, params, st)>>
        asked1 == [a1 |-> a1, cclose |-> Unasked, kclose |-> Unasked, open |-> Unasked,
                   a2 |-> Unasked]
    IN  IF a1 = "ok"
           THEN [st |-> st, exc |-> NoError, executed |-> first, reconnects |-> 0,
                 asked |-> asked1]
        ELSE IF ~Caught(a1) \/ RaiseAsIs(st.in_transaction, auto)
           THEN [st |-> st, exc |-> Error(a1, "execute", 1), executed |-> first,
                 reconnects |-> 0, asked |-> asked1]
        ELSE LET rc == reconnect(st, cclose, kclose, open)
                 asked2 == [asked1 EXCEPT !.cclose = Asked(cclose),
                                          !.kclose = Asked(kclose),
                                          !.open = Asked(open)]
             IN  IF rc.exc # NoError
                    THEN [st |-> rc.st, exc |-> Error(a1, "execute", 1),
                          executed |-> first, reconnects |-> 1, asked |-> asked2]
                    ELSE [st |-> rc.st,
                          exc |-> IF a2 = "ok" THEN NoError ELSE Error(a2, "execute", 2),
                          executed |-> Append(first, Executed(stmt, params, rc.st)),
                          reconnects |-> 1,
                          asked |-> [asked2 EXCEPT !.a2 = Asked(a2)]]

\* sql: "finally: store.in_transaction = True"
\* (a variant without the finally clause)
SqlFinallyKeeps(in_tx, exc) == in_tx
SqlFinallyOnReturn(in_tx, exc) == in_tx \/ exc = NoError
SqlFinally(in_tx, exc) == TRUE

\* ddl: "if store.config['ddl_implicit_commit'] == 'false': store.commit()"
\* (a variant with the test reversed)
DdlCommitsWhenTrue(val) == val = "true"
DdlCommits(val) == val = "false"

\* rollback: "except store.module.OperationalError" reconnects
\* (a variant without the handler)
RollbackReconnectsNever(class) == FALSE
RollbackReconnects(class) == class = "OperationalError"

Pre == [conn |-> conn, cursor |-> cursor, in_transaction |-> in_transaction,
        auto_reconnect |-> auto_reconnect]

NothingAsked == [a1 |-> Unasked, cclose |-> Unasked, kclose |-> Unasked,
                 open |-> Unasked, a2 |-> Unasked]

Last(op, stmt, params, exc, executed, reconnects, commits, asked) ==
    [op |-> op, stmt |-> stmt, params |-> params,
     result |-> IF exc = NoError THEN "returned" ELSE "raised",
     exc |-> exc, executed |-> executed, reconnects |-> reconnects,
     commits |-> commits, asked |-> asked, pre |-> Pre]

SetStore(st) ==
    /\ st.opened <= MaxConns
    /\ conn' = st.conn
    /\ cursor' = st.cursor
    /\ opened' = st.opened
    /\ closed' = st.closed
    /\ in_transaction' = st.in_transaction

ConnStart ==
    /\ conn = 1
    /\ cursor = 1
    /\ opened = 1
    /\ closed = FALSE
    /\ in_transaction = FALSE
    /\ auto_reconnect = FALSE
    /\ ddl_implicit_commit \in {"true", "false"}
    /\ last = [op |-> "init_conn", stmt |-> "", params |-> <<>>, result |-> "returned",
               exc |-> NoError, executed |-> <<>>, reconnects |-> 0, commits |-> 0,
               asked |-> NothingAsked,
               pre |-> [conn |-> 1, cursor |-> 1, in_transaction |-> FALSE,
                        auto_reconnect |-> FALSE]]

\* the variables of SpecConn while another specification runs
ConnIdle ==
    /\ ConnStart
    /\ ddl_implicit_commit = "true"

\* __init__: "store.auto_reconnect = True" once the store is set up
EnableAutoReconnect ==
    /\ ~auto_reconnect
    /\ auto_reconnect' = TRUE
    /\ UNCHANGED <<conn, cursor, opened, closed, in_transaction, ddl_implicit_commit, last>>
    /\ UNCHANGED notConnVars

\* what the backend can answer during one _execute: to the first execute
\* alone, or to it and to a reconnect that fails, or to those and to the
\* second execute
ExecuteAnswers ==
    {[NothingAsked EXCEPT !.a1 = a1] : a1 \in ExecAnswers}
    \cup {[a1 |-> a1, cclose |-> cclose, kclose |-> kclose, open |-> open, a2 |-> Unasked] :
             a1 \in ErrorClasses, cclose \in CloseAnswers, kclose \in CloseAnswers,
             open \in OpenAnswers \ {"ok"}}
    \cup {[a1 |-> a1, cclose |-> cclose, kclose |-> kclose, open |-> "ok", a2 |-> a2] :
             a1 \in ErrorClasses, cclose \in CloseAnswers, kclose \in CloseAnswers,
             a2 \in ExecAnswers}

\* sql(stmt, params): _execute, and in_transaction = True whatever happens
Sql(stmt, params) ==
    \E ans \in ExecuteAnswers :
        /\ closed => ans.a1 # "ok"
        /\ LET r == execute(Store, auto_reconnect, stmt, params, ans.a1, ans.cclose,
                            ans.kclose, ans.open, ans.a2)
           IN  /\ r.asked = ans
               /\ SetStore([r.st EXCEPT
                               !.in_transaction = SqlFinally(r.st.in_transaction, r.exc)])
               /\ last' = Last("sql", stmt, params, r.exc, r.executed, r.reconnects, 0,
                               r.asked)
        /\ UNCHANGED <<auto_reconnect, ddl_implicit_commit>>
        /\ UNCHANGED notConnVars

\* commit: store.conn.commit(); store.in_transaction = False
commit(st, answer) ==
    IF answer = "ok"
       THEN [st |-> [st EXCEPT !.in_transaction = FALSE], exc |-> NoError]
       ELSE [st |-> st, exc |-> Error(answer, "commit", 1)]

\* ddl(stmt): cursor.execute(stmt), not through _execute; an error of it is
\* logged and raised again; then commit() or in_transaction = False
\* (a variant that logs the error and goes on as if the statement had worked)
ddlSwallowsError(st, val, stmt, a1, acommit) ==
    [st |-> [st EXCEPT !.in_transaction = FALSE], exc |-> NoError,
     executed |-> <<Executed(stmt, <<>>, st)>>, commits |-> 0,
     asked |-> [NothingAsked EXCEPT !.a1 = a1]]
ddlKeepsTransaction(st, val, stmt, a1, acommit) ==
    [st |-> st, exc |-> IF a1 = "ok" THEN NoError ELSE Error(a1, "execute", 1),
     executed |-> <<Executed(stmt, <<>>, st)>>, commits |-> 0,
     asked |-> [NothingAsked EXCEPT !.a1 = a1]]
ddl(st, val, stmt, a1, acommit) ==
    LET once == <<Executed(stmt, <<>>, st)>>
    IN  IF a1 # "ok"
           THEN [st |-> st, exc |-> Error(a1, "execute", 1), executed |-> once,
                 commits |-> 0, asked |-> [NothingAsked EXCEPT !.a1 = a1]]
        ELSE IF DdlCommits(val)
           THEN LET r == commit(st, acommit)
                IN  [st |-> r.st, exc |-> r.exc, executed |-> once, commits |-> 1,
                     asked |-> [NothingAsked EXCEPT !.a1 = a1, !.a2 = Asked(acommit)]]
        ELSE [st |-> [st EXCEPT !.in_transaction = FALSE], exc |-> NoError,
              executed |-> once, commits |-> 0,
              asked |-> [NothingAsked EXCEPT !.a1 = a1]]

\* ddl(stmt)
Ddl(stmt) ==
    \E a1, acommit \in ExecAnswers :
        /\ closed => a1 # "ok"
        /\ LET r == ddl(Store, ddl_implicit_commit, stmt, a1, acommit)
           IN  /\ r.commits = 0 => acommit = "ok"
               /\ SetStore(r.st)
               /\ last' = Last("ddl", stmt, <<>>, r.exc, r.executed, 0, r.commits,
                               r.asked)
        /\ UNCHANGED <<auto_reconnect, ddl_implicit_commit>>
        /\ UNCHANGED notConnVars

\* the objects the schema statements of initialize() create, in the order of
\* the statements
SchemaStmts ==
    <<"configvar", "datadir", "magic", "policy", "block", "chain", "chain_candidate",
      "x_cc_block", "x_cc_chain_block_height", "x_cc_block_height", "orphan_block",
      "x_orphan_block_hashPrev", "block_next", "tx", "block_tx", "x_block_tx_tx",
      "pubkey", "txout", "x_txout_pubkey", "txin", "x_txin_txout", "unlinked_txin",
      "x_unlinked_txin_outpoint", "block_txin", "chain_summary", "txout_detail",
      "txin_detail", "txout_approx", "abe_lock">>

\* how many of them the model runs
NumSchemaStmts == 3

\* the backend's answers to the loop: "ok" to every statement before the
\* f-th and the answers bad to that one (f = 0: "ok" to all of them)
SchemaAnswer(i, f, bad) == IF i = f THEN bad ELSE [a1 |-> "ok", acommit |-> "ok"]

\* initialize: "for stmt in (...): try: store.ddl(stmt) except: log; raise",
\* from the i-th statement on; acc is what the loop has done so far
RECURSIVE SchemaLoop(_, _, _, _, _, _)
SchemaLoop(st, val, i, f, bad, acc) ==
    IF i > NumSchemaStmts
       THEN [st |-> st, exc |-> NoError, executed |-> acc.executed,
             commits |-> acc.commits, asked |-> acc.asked, stmt |-> ""]
       ELSE LET r == ddl(st, val, SchemaStmts[i], SchemaAnswer(i, f, bad).a1,
                         SchemaAnswer(i, f, bad).acommit)
                now == [executed |-> acc.executed \o r.executed,
                        commits |-> acc.commits + r.commits,
                        asked |-> r.asked]
            IN  IF r.exc # NoError
                   THEN [st |-> r.st, exc |-> r.exc, executed |-> now.executed,
                         commits |-> now.commits, asked |-> now.asked,
                         stmt |-> SchemaStmts[i]]
                   ELSE SchemaLoop(r.st, val, i + 1, f, bad, now)

\* the answers that make a ddl() fail
DdlFailures(val) ==
    {[a1 |-> a1, acommit |-> "ok"] : a1 \in ErrorClasses}
    \cup {[a1 |-> "ok", acommit |-> acommit] : acommit \in ErrorClasses}

\* the schema loop of initialize()
InitializeSchema ==
    \E f \in 0 .. NumSchemaStmts, bad \in DdlFailures(ddl_implicit_commit) :
        /\ closed => f = 1 /\ bad.a1 # "ok"
        /\ f = 0 => bad = [a1 |-> "OperationalError", acommit |-> "ok"]
        /\ LET r == SchemaLoop(Store, ddl_implicit_commit, 1, f, bad,
                               [executed |-> <<>>, commits |-> 0,
                                asked |-> NothingAsked])
           IN  /\ f # 0 => r.exc # NoError
               /\ SetStore(r.st)
               /\ last' = Last("initialize", r.stmt, <<>>, r.exc, r.executed, 0,
                               r.commits, r.asked)
        /\ UNCHANGED <<auto_reconnect, ddl_implicit_commit>>
        /\ UNCHANGED notConnVars

\* commit()
Commit ==
    \E acommit \in ExecAnswers :
        /\ closed => acommit # "ok"
        /\ LET r == commit(Store, acommit)
           IN  /\ SetStore(r.st)
               /\ last' = Last("commit", "", <<>>, r.exc, <<>>, 0, 1,
                               [NothingAsked EXCEPT !.a1 = acommit])
        /\ UNCHANGED <<auto_reconnect, ddl_implicit_commit>>
        /\ UNCHANGED notConnVars

\* rollback(): store.conn.rollback(); store.in_transaction = False; an
\* OperationalError is logged and answered by reconnect()
Rollback ==
    \E a1 \in ExecAnswers, cclose, kclose \in CloseAnswers, open \in OpenAnswers :
        /\ closed => a1 # "ok"
        /\ IF a1 = "ok"
              THEN /\ cclose = "ok" /\ kclose = "ok" /\ open = "ok"
                   /\ SetStore([Store EXCEPT !.in_transaction = FALSE])
                   /\ last' = Last("rollback", "", <<>>, NoError, <<>>, 0, 0,
                                   [NothingAsked EXCEPT !.a1 = a1])
           ELSE IF RollbackReconnects(a1)
              THEN LET rc == reconnect(Store, cclose, kclose, open)
                   IN  /\ SetStore(rc.st)
                       /\ last' = Last("rollback", "", <<>>, rc.exc, <<>>, 1, 0,
                                       [NothingAsked EXCEPT !.a1 = a1,
                                           !.cclose = cclose, !.kclose = kclose,
                                           !.open = open])
           ELSE /\ cclose = "ok" /\ kclose = "ok" /\ open = "ok"
                /\ SetStore(Store)
                /\ last' = Last("rollback", "", <<>>, Error(a1, "rollback", 1), <<>>,
                                0, 0, [NothingAsked EXCEPT !.a1 = a1])
        /\ UNCHANGED <<auto_reconnect, ddl_implicit_commit>>
        /\ UNCHANGED notConnVars

\* reconnect()
Reconnect ==
    \E cclose, kclose \in CloseAnswers, open \in OpenAnswers :
        /\ LET rc == reconnect(Store, cclose, kclose, open)
           IN  /\ SetStore(rc.st)
               /\ last' = Last("reconnect", "", <<>>, rc.exc, <<>>, 1, 0,
                               [NothingAsked EXCEPT !.cclose = cclose,
                                   !.kclose = kclose,
                                   !.open = IF rc.exc.from = "close" THEN Unasked
                                                                     ELSE open])
        /\ UNCHANGED <<auto_reconnect, ddl_implicit_commit>>
        /\ UNCHANGED notConnVars

\* close(): store.conn.close()
Close ==
    \E kclose \in CloseAnswers :
        /\ ~closed
        /\ SetStore([Store EXCEPT !.closed = (kclose = "ok")])
        /\ last' = Last("close", "", <<>>,
                        IF kclose = "ok" THEN NoError ELSE Error("Error", "close", 1),
                        <<>>, 0, 0, [NothingAsked EXCEPT !.kclose = kclose])
        /\ UNCHANGED <<auto_reconnect, ddl_implicit_commit>>
        /\ UNCHANGED notConnVars

(***************************************************************************)
(* The dialect of one store: the driver module, the arguments, the         *)
(* configuration and the flavour _set_sql_flavour builds from them.        *)
(***************************************************************************)
SCHEMA_VERSION == "Abe35"
NO_CLOB == "BUG_NO_CLOB"

\* the keys store.config can hold
ConfigKeys == {"ddl_implicit_commit", "create_table_epilogue", "max_varchar",
               "clob_type", "binary_type", "int_type", "sequence_type", "limit_style",
               "schema_version", "use_firstbits", "keep_scriptsig"}

\* store.config = {}
EmptyConfig == [k \in ConfigKeys |-> Unset]
\* store.config is None
NoConfig == [k \in ConfigKeys |-> "NoneType"]

\* a function of the flavour is the list of the functions it applies, first
\* to last; identity is the empty list
identity == <<>>

\* what _set_sql_flavour assigns to the store when it returns
Flavour(transform, bin, intin, val, selectall) ==
    [sql_transform |-> transform,
     binin |-> bin.binin, binin_hex |-> bin.binin_hex,
     binout |-> bin.binout, binout_hex |-> bin.binout_hex,
     hashin |-> bin.hashin, hashin_hex |-> bin.hashin_hex,
     hashout |-> bin.hashout, hashout_hex |-> bin.hashout_hex,
     intin |-> intin,
     new_id |-> NewIdImpl(val), create_sequence |-> CreateImpl(val),
     drop_sequence |-> DropImpl(val),
     selectall |-> selectall]

\* the store before _set_sql_flavour has run
NoFlavour ==
    [sql_transform |-> <<"unset">>,
     binin |-> <<"unset">>, binin_hex |-> <<"unset">>,
     binout |-> <<"unset">>, binout_hex |-> <<"unset">>,
     hashin |-> <<"unset">>, hashin_hex |-> <<"unset">>,
     hashout |-> <<"unset">>, hashout_hex |-> <<"unset">>,
     intin |-> <<"unset">>,
     new_id |-> "unset", create_sequence |-> "unset", drop_sequence |-> "unset",
     selectall |-> "unset"]

\* _set_sql_flavour: the placeholder conversion the driver's paramstyle selects
ParamstyleTransform(paramstyle) ==
    CASE paramstyle \in {"format", "pyformat"} -> <<"_qmark_to_format">>
      [] paramstyle = "named" -> <<"_qmark_to_named">>
      [] OTHER -> identity

\* _set_sql_flavour: the eight binary and hash functions and the statement
\* rewrite a binary_type selects
BinaryFunctions(val) ==
    CASE val \in {Unset, "str", "binary"} ->
            [binin |-> identity, binin_hex |-> <<"from_hex">>,
             binout |-> identity, binout_hex |-> <<"to_hex">>,
             hashin |-> <<"rev">>, hashin_hex |-> <<"from_hex">>,
             hashout |-> <<"rev">>, hashout_hex |-> <<"to_hex">>,
             transform |-> IF val = "binary" THEN <<"_sql_binary_as_binary">>
                                             ELSE identity,
             supported |-> TRUE]
      [] val \in {"buffer", "bytearray", "pg-bytea"} ->
            LET to_btype == IF val = "bytearray" THEN "bytearray" ELSE "buffer"
            IN  [binin |-> <<to_btype>>, binin_hex |-> <<"from_hex", to_btype>>,
                 binout |-> <<"to_str">>, binout_hex |-> <<"to_hex">>,
                 hashin |-> <<"rev", to_btype>>, hashin_hex |-> <<"from_hex", to_btype>>,
                 hashout |-> <<"rev">>, hashout_hex |-> <<"to_hex">>,
                 transform |-> IF val = "pg-bytea" THEN <<"_sql_binary_as_bytea">>
                                                   ELSE identity,
                 supported |-> TRUE]
      [] val = "hex" ->
            [binin |-> <<"to_hex">>, binin_hex |-> identity,
             binout |-> <<"from_hex">>, binout_hex |-> identity,
             hashin |-> <<"to_hex_rev">>, hashin_hex |-> identity,
             hashout |-> <<"from_hex_rev">>, hashout_hex |-> identity,
             transform |-> <<"_sql_binary_as_hex">>,
             supported |-> TRUE]
      [] OTHER ->
            [binin |-> identity, binin_hex |-> identity,
             binout |-> identity, binout_hex |-> identity,
             hashin |-> identity, hashin_hex |-> identity,
             hashout |-> identity, hashout_hex |-> identity,
             transform |-> identity,
             supported |-> FALSE]

\* _set_sql_flavour: "Convert Oracle LOB to str" wraps binout and binout_hex
fix_lob(bin, LOB) ==
    IF LOB
       THEN [bin EXCEPT !.binout = <<"to_str">> \o bin.binout,
                        !.binout_hex = <<"to_str">> \o bin.binout_hex]
       ELSE bin

\* _set_sql_flavour: the integer encoder and the statement rewrite an int_type
\* selects
IntFunctions(val) ==
    CASE val \in {Unset, "int"} ->
            [intin |-> identity, transform |-> identity, supported |-> TRUE]
      [] val = "decimal" ->
            [intin |-> <<"decimal.Decimal">>, transform |-> identity, supported |-> TRUE]
      [] val = "str" ->
            [intin |-> <<"str">>, transform |-> <<"_approximate_txout">>,
             supported |-> TRUE]
      [] OTHER -> [intin |-> identity, transform |-> identity, supported |-> FALSE]

\* _set_sql_flavour: the selectall a limit_style selects
Selectall(val) == IF val = "emulated" THEN "emulate_limit" ELSE "_selectall"

\* _set_sql_flavour with the configuration cfg and the driver module mod: the
\* flavour it installs, or the exception it raises before assigning anything.
\* A rewrite wrapped later is applied earlier.
set_sql_flavour(cfg, mod) ==
    LET bin == BinaryFunctions(cfg["binary_type"])
        ints == IntFunctions(cfg["int_type"])
        val == cfg["sequence_type"]
    IN  IF ~bin.supported
           THEN [raised |-> TRUE, exc |-> "Unsupported binary-type", flavour |-> NoFlavour]
        ELSE IF ~ints.supported
           THEN [raised |-> TRUE, exc |-> "Unsupported int-type", flavour |-> NoFlavour]
        ELSE IF NewIdImpl(val) = "unsupported"
           THEN [raised |-> TRUE, exc |-> "Unsupported sequence-type",
                 flavour |-> NoFlavour]
        ELSE [raised |-> FALSE, exc |-> "",
              flavour |-> Flavour(ints.transform \o bin.transform
                                      \o ParamstyleTransform(mod.paramstyle),
                                  fix_lob(bin, mod.LOB), ints.intin, val,
                                  Selectall(cfg["limit_style"]))]

\* the driver modules of the model: paramstyle, and whether the module has a
\* LOB type
Modules ==
    {[paramstyle |-> "qmark", LOB |-> FALSE],
     [paramstyle |-> "pyformat", LOB |-> FALSE],
     [paramstyle |-> "format", LOB |-> FALSE],
     [paramstyle |-> "named", LOB |-> TRUE]}

NoArgs == [binary_type |-> Unset, int_type |-> Unset, upgrade |-> FALSE,
           use_firstbits |-> FALSE, keep_scriptsig |-> FALSE]

\* the dialect variables while a specification that does not use them runs
DialectIdle ==
    /\ module = [paramstyle |-> "qmark", LOB |-> FALSE]
    /\ args = NoArgs
    /\ config = NoConfig
    /\ flavour = NoFlavour

(***************************************************************************)
(* Binary I/O with the database: the functions _set_sql_flavour builds the *)
(* eight encoders and decoders from.  A Python str is its sequence of      *)
(* bytes; a value is a str, a buffer, a bytearray or None, and an          *)
(* exception that a function raises is the value Raised.                   *)
(***************************************************************************)
\* longest byte string given to binin
MaxBytes == 2
\* bytes of a hash in the model
HashBytes == 3

\* the byte values the model builds strings from
ByteSample == {0, 10, 171, 255}

PyNone == [type |-> "NoneType", bytes |-> <<>>]
Raised == [type |-> "raise", bytes |-> <<>>]
PyStr(b) == [type |-> "str", bytes |-> b]

\* "0123456789abcdef"
HexDigits == <<48, 49, 50, 51, 52, 53, 54, 55, 56, 57, 97, 98, 99, 100, 101, 102>>

\* the value of a hex digit, upper or lower case; None for any other character
HexValue(c) ==
    IF c \in 48 .. 57 THEN c - 48
    ELSE IF c \in 97 .. 102 THEN c - 87
    ELSE IF c \in 65 .. 70 THEN c - 55
    ELSE None

\* s.encode('hex')
EncodeHex(b) ==
    [i \in 1 .. 2 * Len(b) |->
        IF i % 2 = 1 THEN HexDigits[(b[(i + 1) \div 2] \div 16) + 1]
                     ELSE HexDigits[(b[i \div 2] % 16) + 1]]

WellFormedHex(s) == Len(s) % 2 = 0 /\ \A i \in DOMAIN s : HexValue(s[i]) # None

\* s.decode('hex') of a well-formed s
\* (a variant that reads the low digit of a byte first)
DecodeHexLowDigitFirst(s) ==
    [i \in 1 .. Len(s) \div 2 |-> HexValue(s[2 * i]) * 16 + HexValue(s[2 * i - 1])]
DecodeHex(s) ==
    [i \in 1 .. Len(s) \div 2 |-> HexValue(s[2 * i - 1]) * 16 + HexValue(s[2 * i])]

\* b[::-1]
Reverse(b) == [i \in 1 .. Len(b) |-> b[Len(b) + 1 - i]]

IsBytes(x) == x.type \in {"str", "buffer", "bytearray"}

\* rev: x[::-1]; a slice of a buffer is a str
rev(x) ==
    IF ~IsBytes(x) THEN Raised
    ELSE [type |-> IF x.type = "bytearray" THEN "bytearray" ELSE "str",
          bytes |-> Reverse(x.bytes)]

\* to_hex: None if x is None else str(x).encode('hex')
to_hex(x) == IF x = PyNone THEN PyNone ELSE PyStr(EncodeHex(x.bytes))

\* from_hex: None if x is None else x.decode('hex')
from_hex(x) ==
    IF x = PyNone THEN PyNone
    ELSE IF x.type # "str" \/ ~WellFormedHex(x.bytes) THEN Raised
    ELSE PyStr(DecodeHex(x.bytes))

\* to_hex_rev: None if x is None else str(x)[::-1].encode('hex')
\* (a variant without the reversal)
to_hex_revUnreversed(x) == IF x = PyNone THEN PyNone ELSE PyStr(EncodeHex(x.bytes))
to_hex_rev(x) == IF x = PyNone THEN PyNone ELSE PyStr(EncodeHex(Reverse(x.bytes)))

\* from_hex_rev: None if x is None else x.decode('hex')[::-1]
\* (a variant without the reversal)
from_hex_revUnreversed(x) ==
    IF x = PyNone THEN PyNone
    ELSE IF x.type # "str" \/ ~WellFormedHex(x.bytes) THEN Raised
    ELSE PyStr(DecodeHex(x.bytes))
from_hex_rev(x) ==
    IF x = PyNone THEN PyNone
    ELSE IF x.type # "str" \/ ~WellFormedHex(x.bytes) THEN Raised
    ELSE PyStr(Reverse(DecodeHex(x.bytes)))

\* to_btype: None if x is None else bytearray(x), or buffer(x)
to_btype(btype, x) == IF x = PyNone THEN PyNone ELSE [type |-> btype, bytes |-> x.bytes]

\* to_str: None if x is None else str(x)
to_str(x) == IF x = PyNone THEN PyNone ELSE PyStr(x.bytes)

\* one function of a flavour's list applied to x
Call(fn, x) ==
    CASE fn = "rev" -> rev(x)
      [] fn = "to_hex" -> to_hex(x)
      [] fn = "from_hex" -> from_hex(x)
      [] fn = "to_hex_rev" -> to_hex_rev(x)
      [] fn = "from_hex_rev" -> from_hex_rev(x)
      [] fn \in {"bytearray", "buffer"} -> to_btype(fn, x)
      [] fn = "to_str" -> to_str(x)
      [] OTHER -> Raised

\* a function of the flavour applied to x; an exception ends the call
RECURSIVE Apply(_, _)
Apply(fns, x) ==
    IF fns = <<>> \/ x = Raised THEN x
    ELSE Apply(Tail(fns), Call(Head(fns), x))

\* Python's a == b on these values: a str and a bytearray with the same bytes
\* are equal
PyEq(a, b) ==
    \/ a = b
    \/ /\ a.type \in {"str", "bytearray"}
       /\ b.type \in {"str", "bytearray"}
       /\ a.bytes = b.bytes

RECURSIVE ByteStrings(_)
ByteStrings(n) ==
    IF n = 0 THEN {<<>>}
    ELSE {<<>>} \cup {<<c>> \o s : c \in ByteSample, s \in ByteStrings(n - 1)}

BinaryTypes == {"str", "binary", "buffer", "bytearray", "pg-bytea", "hex"}

\* the inputs of the model: byte strings of up to MaxBytes bytes for binin,
\* hashes of HashBytes bytes for hashin
BinStart ==
    /\ module \in Modules
    /\ args = NoArgs
    /\ config \in {[EmptyConfig EXCEPT !["binary_type"] = val] :
                       val \in BinaryTypes \cup {Unset}}
    /\ flavour = set_sql_flavour(config, module).flavour
    /\ bin_fn \in {"bin", "hash"}
    /\ bin_x \in {PyStr(b) : b \in ByteStrings(IF bin_fn = "bin" THEN MaxBytes
                                                              ELSE HashBytes)}
    /\ bin_fn = "hash" => Len(bin_x.bytes) = HashBytes
    /\ bin_db = PyNone
    /\ bin_out = PyNone
    /\ bin_hex = PyNone
    /\ bin_db_hex = PyNone
    /\ bin_pc = "encode"

BinIdle ==
    /\ bin_fn = "bin"
    /\ bin_x = PyNone
    /\ bin_db = PyNone
    /\ bin_out = PyNone
    /\ bin_hex = PyNone
    /\ bin_db_hex = PyNone
    /\ bin_pc = "encode"

\* store.binin(x) or store.hashin(x): the value given to the database
BinEncode ==
    /\ bin_pc = "encode"
    /\ bin_db' = Apply(IF bin_fn = "bin" THEN flavour.binin ELSE flavour.hashin, bin_x)
    /\ bin_pc' = "decode"
    /\ UNCHANGED <<bin_fn, bin_x, bin_out, bin_hex, bin_db_hex>>
    /\ UNCHANGED dialectVars
    /\ UNCHANGED notBinVars

\* store.binout or store.hashout of that value
BinDecode ==
    /\ bin_pc = "decode"
    /\ bin_out' = Apply(IF bin_fn = "bin" THEN flavour.binout ELSE flavour.hashout,
                        bin_db)
    /\ bin_pc' = "decode_hex"
    /\ UNCHANGED <<bin_fn, bin_x, bin_db, bin_hex, bin_db_hex>>
    /\ UNCHANGED dialectVars
    /\ UNCHANGED notBinVars

\* store.binout_hex or store.hashout_hex of that value
BinDecodeHex ==
    /\ bin_pc = "decode_hex"
    /\ bin_hex' = Apply(IF bin_fn = "bin" THEN flavour.binout_hex
                                          ELSE flavour.hashout_hex, bin_db)
    /\ bin_pc' = "done"
    /\ UNCHANGED <<bin_fn, bin_x, bin_db, bin_out, bin_db_hex>>
    /\ UNCHANGED dialectVars
    /\ UNCHANGED notBinVars

\* store.binin_hex or store.hashin_hex of the hex text that binout_hex or
\* hashout_hex gave
BinEncodeHex ==
    /\ bin_pc = "done"
    /\ bin_db_hex' = Apply(IF bin_fn = "bin" THEN flavour.binin_hex
                                             ELSE flavour.hashin_hex, bin_hex)
    /\ bin_pc' = "encoded_hex"
    /\ UNCHANGED <<bin_fn, bin_x, bin_db, bin_out, bin_hex>>
    /\ UNCHANGED dialectVars
    /\ UNCHANGED notBinVars

(***************************************************************************)
(* configure_max_varchar: the search for the widest VARCHAR the backend    *)
(* takes.  The backend either takes exactly the widths up to backend_max   *)
(* (monotone) or answers each probe as it likes.                           *)
(***************************************************************************)
\* the search starts with hi = 1 << WidthBits (32 in the program)
WidthBits == 4

MaxWidth == 2 ^ WidthBits

\* str(n) of a width, and int(s) of what str gave
str(n) == ToString(n)
int(s) == CHOOSE n \in 0 .. MaxWidth : str(n) = s

\* how one probe can end: the row read back is ['x', 'y']; it is something
\* else; a statement raised DatabaseError; anything else was raised
ProbeOutcomes == {"match", "mismatch", "DatabaseError", "Exception"}

\* the outcomes the backend can give to a probe of VARCHAR(width)
Accepts(width) ==
    IF ~monotone THEN ProbeOutcomes
    ELSE IF width <= backend_max THEN {"match"}
    ELSE ProbeOutcomes \ {"match"}

\* the loop body: "lo = mid" when the row matches, "hi = mid" otherwise
\* (a variant that leaves out the failed width: hi = mid - 1)
NarrowBelowMid(l, h, m, outcome) ==
    IF outcome = "match" THEN [lo |-> m, hi |-> h] ELSE [lo |-> l, hi |-> m - 1]
Narrow(l, h, m, outcome) ==
    IF outcome = "match" THEN [lo |-> m, hi |-> h] ELSE [lo |-> l, hi |-> m]

\* "mid = (lo + hi) / 2"
\* (a variant that forgets lo: mid = hi / 2)
MidpointOfHi(l, h) == h \div 2
Midpoint(l, h) == (l + h) \div 2

WidthStart ==
    /\ module = [paramstyle |-> "qmark", LOB |-> FALSE]
    /\ args = NoArgs
    /\ config \in {[EmptyConfig EXCEPT !["ddl_implicit_commit"] = val,
                                       !["create_table_epilogue"] = ""] :
                       val \in {"true", "false"}}
    /\ flavour = set_sql_flavour(config, module).flavour
    /\ monotone \in BOOLEAN
    /\ backend_max \in 0 .. MaxWidth - 1
    /\ ~monotone => backend_max = 0
    /\ lo = None
    /\ hi = None
    /\ mid = None
    /\ probes = <<>>
    /\ w_pc = "configure_max_varchar"

WidthIdle ==
    /\ monotone = TRUE
    /\ backend_max = 0
    /\ lo = None
    /\ hi = None
    /\ mid = None
    /\ probes = <<>>
    /\ w_pc = "configure_max_varchar"

\* "lo = 0; hi = 1 << 32; mid = hi - 1; store.config['max_varchar'] = str(mid)"
MaxVarcharStart ==
    /\ w_pc = "configure_max_varchar"
    /\ lo' = 0
    /\ hi' = MaxWidth
    /\ mid' = MaxWidth - 1
    /\ config' = [config EXCEPT !["max_varchar"] = str(MaxWidth - 1)]
    /\ w_pc' = "while"
    /\ UNCHANGED <<monotone, backend_max, probes>>
    /\ UNCHANGED <<module, args, flavour>>
    /\ UNCHANGED notWidthVars

\* one turn of the loop: the probe of VARCHAR(mid), the new lo or hi, and
\* either the end ("lo + 1 == hi": max_varchar = str(lo)) or the next mid
MaxVarcharProbe ==
    /\ w_pc = "while"
    /\ \E outcome \in Accepts(mid) :
          LET n == Narrow(lo, hi, mid, outcome)
          IN  /\ lo' = n.lo
              /\ hi' = n.hi
              /\ probes' = Append(probes, <<mid, outcome>>)
              /\ IF n.lo + 1 = n.hi
                    THEN /\ config' = [config EXCEPT !["max_varchar"] = str(n.lo)]
                         /\ w_pc' = "done"
                         /\ UNCHANGED mid
                    ELSE /\ mid' = Midpoint(n.lo, n.hi)
                         /\ w_pc' = "while"
                         /\ UNCHANGED config
    \* (the model stops a search that has not ended after 2 * WidthBits probes)
    /\ Len(probes) <= 2 * WidthBits
    /\ UNCHANGED <<monotone, backend_max>>
    /\ UNCHANGED <<module, args, flavour>>
    /\ UNCHANGED notWidthVars

(***************************************************************************)
(* configure(): the negotiation of the dialect.  Each configure_* function *)
(* is a loop over its candidates; one action is one turn of that loop.     *)
(* What a probe returns is the backend's choice.                           *)
(***************************************************************************)
\* the order in which configure() calls the configure_* functions
ConfigureOrder ==
    <<"ddl_implicit_commit", "create_table_epilogue", "max_varchar", "clob_type",
      "binary_type", "int_type", "sequence_type", "limit_style">>

\* the parameters whose value is the first candidate of a list that works
ListParams == {"ddl_implicit_commit", "create_table_epilogue", "binary_type",
               "int_type", "sequence_type", "limit_style"}

\* the candidates of each configure_* loop, in the order of the loop
Candidates(param, a) ==
    CASE param = "ddl_implicit_commit" -> <<"true", "false">>
      [] param = "create_table_epilogue" -> <<"", " ENGINE=InnoDB">>
      [] param = "clob_type" -> <<"CLOB", "LONGTEXT", "TEXT", "LONG">>
      [] param = "binary_type" ->
            IF a.binary_type = Unset
               THEN <<"str", "bytearray", "buffer", "hex", "pg-bytea", "binary">>
               ELSE <<a.binary_type>>
      [] param = "int_type" ->
            IF a.int_type = Unset THEN <<"int", "decimal", "str">> ELSE <<a.int_type>>
      [] param = "sequence_type" ->
            <<"oracle", "postgres", "nvf", "db2", "mysql", "update">>
      [] param = "limit_style" -> <<"native", "emulated">>

\* the exception a configure_* function raises when no candidate works
NoCandidate(param, a) ==
    CASE param = "ddl_implicit_commit" -> "Can not test for DDL implicit commit."
      [] param = "create_table_epilogue" -> "Can not create a transactional table."
      [] param = "binary_type" ->
            IF a.binary_type = Unset THEN "No known binary data representation works"
                                     ELSE "Binary type fails test"
      [] param = "int_type" -> "No known large integer representation works"
      [] param = "sequence_type" -> "No known sequence type works"
      [] param = "limit_style" -> "Can not emulate LIMIT."

\* what a probe can do: return True, return False, or (_test_ddl, whose
\* CREATE TABLE is outside its try block) raise
ProbeResults(param) ==
    IF param = "ddl_implicit_commit" THEN {"True", "False", "raised"}
                                     ELSE {"True", "False"}

\* the position of a configure_* function in configure()
Position(fn) ==
    IF fn = "configure" THEN 0
    ELSE IF fn = "done" THEN Len(ConfigureOrder) + 1
    ELSE CHOOSE i \in DOMAIN ConfigureOrder : ConfigureOrder[i] = fn

\* the function configure() calls after fn
\* (a variant that calls configure_binary_type before configure_clob_type)
FollowingBinaryBeforeClob(fn) ==
    CASE fn = "max_varchar" -> "binary_type"
      [] fn = "binary_type" -> "clob_type"
      [] fn = "clob_type" -> "int_type"
      [] fn = "limit_style" -> "done"
      [] OTHER -> ConfigureOrder[Position(fn) + 1]
Following(fn) ==
    IF Position(fn) = Len(ConfigureOrder) THEN "done"
    ELSE ConfigureOrder[Position(fn) + 1]

\* a configure_* loop after the probe of its i-th candidate of n: "return"
\* when the probe returned True, the next candidate when there is one, and
\* the exception after the loop when there is none
\* (a variant that keeps the last candidate when none works)
AfterProbeKeepsLast(result, i, n) ==
    IF result = "True" THEN "return"
    ELSE IF i < n THEN "next"
    ELSE "return"
AfterProbe(result, i, n) ==
    IF result = "True" THEN "return"
    ELSE IF i < n THEN "next"
    ELSE "raise"

\* configure_max_varchar on a backend that takes exactly the widths up to M:
\* the lo the loop ends with
RECURSIVE MaxVarchar(_, _, _, _)
MaxVarchar(l, h, m, M) ==
    LET n == Narrow(l, h, m, IF m <= M THEN "match" ELSE "mismatch")
    IN  IF n.lo + 1 = n.hi THEN n.lo
        ELSE MaxVarchar(n.lo, n.hi, Midpoint(n.lo, n.hi), M)

\* the widest VARCHAR of the backends of the model
WidthSample == {0, MaxWidth - 1}

\* the arguments of the model: no forced type, a forced type, and a forced
\* binary type _set_sql_flavour does not know
NegArgs ==
    {[NoArgs EXCEPT !.binary_type = b, !.int_type = i] :
        b \in {Unset, "hex", "bogus"}, i \in {Unset, "str"}}

NegStart ==
    /\ module \in Modules
    /\ args \in NegArgs
    /\ config = NoConfig
    /\ flavour = NoFlavour
    /\ neg_pc = [fn |-> "configure", i |-> 1, exc |-> ""]
    /\ probed = <<>>

NegIdle ==
    /\ neg_pc = [fn |-> "configure", i |-> 1, exc |-> ""]
    /\ probed = <<>>

Running(fn) == neg_pc.fn = fn /\ neg_pc.exc = ""

\* configure: "store.config = {}"
Configure ==
    /\ Running("configure")
    /\ config' = EmptyConfig
    /\ neg_pc' = [fn |-> ConfigureOrder[1], i |-> 1, exc |-> ""]
    /\ UNCHANGED <<module, args, flavour, probed>>
    /\ UNCHANGED notNegVars

\* configure_ddl_implicit_commit: "if 'create_table_epilogue' not in
\* store.config: store.config['create_table_epilogue'] = ''"
WithEpilogue(param, cfg) ==
    IF param = "ddl_implicit_commit" /\ cfg["create_table_epilogue"] = Unset
       THEN [cfg EXCEPT !["create_table_epilogue"] = ""]
       ELSE cfg

\* one turn of the loop of a configure_* function over a list:
\* store.config[param] = val; _set_sql_flavour(); if the probe returns True,
\* return; after the last candidate, raise
ConfigureFromList(param) ==
    /\ Running(param)
    /\ LET cands == Candidates(param, args)
           val == cands[neg_pc.i]
           cfg == [WithEpilogue(param, config) EXCEPT ![param] = val]
           fl == set_sql_flavour(cfg, module)
       IN  /\ config' = cfg
           /\ IF fl.raised
                 THEN /\ neg_pc' = [neg_pc EXCEPT !.exc = fl.exc]
                      /\ UNCHANGED <<flavour, probed>>
                 ELSE /\ flavour' = fl.flavour
                      /\ \E result \in ProbeResults(param) :
                            /\ probed' = Append(probed, [param |-> param, val |-> val,
                                                         result |-> result])
                            /\ neg_pc' =
                                  IF result = "raised"
                                     THEN [neg_pc EXCEPT !.exc = "DatabaseError"]
                                  ELSE LET then == AfterProbe(result, neg_pc.i, Len(cands))
                                       IN  CASE then = "return" ->
                                                  [fn |-> Following(param), i |-> 1,
                                                   exc |-> ""]
                                             [] then = "next" ->
                                                  [neg_pc EXCEPT !.i = neg_pc.i + 1]
                                             [] OTHER ->
                                                  [neg_pc EXCEPT
                                                      !.exc = NoCandidate(param, args)]
    /\ UNCHANGED <<module, args>>
    /\ UNCHANGED notNegVars

ConfigureDdlImplicitCommit == ConfigureFromList("ddl_implicit_commit")

ConfigureCreateTableEpilogue == ConfigureFromList("create_table_epilogue")

\* configure_max_varchar, on a backend whose widest VARCHAR is M
ConfigureMaxVarchar ==
    /\ Running("max_varchar")
    /\ \E M \in WidthSample :
          config' = [config EXCEPT !["max_varchar"] =
                                       str(MaxVarchar(0, MaxWidth, MaxWidth - 1, M))]
    /\ neg_pc' = [fn |-> Following("max_varchar"), i |-> 1, exc |-> ""]
    /\ UNCHANGED <<module, args, flavour, probed>>
    /\ UNCHANGED notNegVars

\* one turn of the loop of configure_clob_type: the first type whose probe
\* works is kept; when none works clob_type is NO_CLOB
ConfigureClobType ==
    /\ Running("clob_type")
    /\ LET cands == Candidates("clob_type", args)
           val == cands[neg_pc.i]
       IN  \E result \in {"True", "False"} :
              /\ probed' = Append(probed, [param |-> "clob_type", val |-> val,
                                           result |-> result])
              /\ IF result = "True"
                    THEN /\ config' = [config EXCEPT !["clob_type"] = val]
                         /\ neg_pc' = [fn |-> Following("clob_type"), i |-> 1,
                                       exc |-> ""]
                 ELSE IF neg_pc.i < Len(cands)
                    THEN /\ UNCHANGED config
                         /\ neg_pc' = [neg_pc EXCEPT !.i = neg_pc.i + 1]
                 ELSE /\ config' = [config EXCEPT !["clob_type"] = NO_CLOB]
                      /\ neg_pc' = [fn |-> Following("clob_type"), i |-> 1, exc |-> ""]
    /\ UNCHANGED <<module, args, flavour>>
    /\ UNCHANGED notNegVars

ConfigureBinaryType == ConfigureFromList("binary_type")

ConfigureIntType == ConfigureFromList("int_type")

ConfigureSequenceType == ConfigureFromList("sequence_type")

ConfigureLimitStyle == ConfigureFromList("limit_style")

(***************************************************************************)
(* The probes of the negotiation and their scratch objects.                *)
(*                                                                         *)
(* The backend holds the objects that are committed and the objects the    *)
(* store's session sees (its open transaction).  A statement can fail with *)
(* DatabaseError or with another exception, as the backend likes, with     *)
(* these limits: a statement fails when the object it reads is not there,  *)
(* CREATE fails when the object is there, DROP fails exactly when the      *)
(* object is not there, and commit and rollback work.  A backend whose DDL *)
(* commits (implicit_commit) commits the session with every CREATE and     *)
(* DROP.                                                                   *)
(***************************************************************************)
\* the scratch objects: the table, the view, and the sequence of key
\* abe_test_1 in the form the sequence_type gives it (a sequence object, the
\* table abe_test_1_seq, or the row of abe_sequences)
ScratchObjects == {"abe_test_1", "abe_test_v1", "abe_test_1_seq"}

Failures == {"DatabaseError", "Exception"}

Ok(b) == [b |-> b, exc |-> "none"]
Fails(b, exc) == [b |-> b, exc |-> exc]

\* what comes next when the results R of one step are followed by F
Then(R, F(_)) == UNION {IF r.exc = "none" THEN F(r.b) ELSE {r} : r \in R}

\* conn.commit() and conn.rollback() on the backend
BackendCommit(b) == [b EXCEPT !.committed = b.session]
BackendRollback(b) == [b EXCEPT !.session = b.committed]

\* the commit a backend with implicit commit does at a DDL statement
ImplicitCommit(b) == IF implicit_commit THEN BackendCommit(b) ELSE b

\* cursor.execute of a CREATE, of a DROP, and of a statement that reads or
\* writes rows of the objects in needs
ExecuteCreate(obj, needs, b) ==
    (IF obj \notin b.session /\ needs \subseteq b.session
        THEN {Ok(ImplicitCommit([b EXCEPT !.session = @ \cup {obj}]))}
        ELSE {})
    \cup {Fails(b, exc) : exc \in Failures}

ExecuteDrop(obj, b) ==
    IF obj \in b.session
       THEN {Ok(ImplicitCommit([b EXCEPT !.session = @ \ {obj}]))}
       ELSE {Fails(b, "DatabaseError")}

ExecuteRows(needs, b) ==
    (IF needs \subseteq b.session THEN {Ok(b)} ELSE {})
    \cup {Fails(b, exc) : exc \in Failures}

\* store.ddl of a CREATE or a DROP: execute, then commit when
\* ddl_implicit_commit is 'false'
DdlThenCommit(b) ==
    IF DdlCommits(config["ddl_implicit_commit"]) THEN {Ok(BackendCommit(b))} ELSE {Ok(b)}

DdlCreate(obj, needs, b) == Then(ExecuteCreate(obj, needs, b), DdlThenCommit)

DdlDrop(obj, b) == Then(ExecuteDrop(obj, b), DdlThenCommit)

\* _drop_if_exists: sql("DROP ..."); commit(); a DatabaseError is answered by
\* rollback()
drop_if_exists(obj, b) ==
    {IF r.exc = "none" THEN Ok(BackendCommit(r.b))
     ELSE IF r.exc = "DatabaseError" THEN Ok(BackendRollback(r.b))
     ELSE r : r \in ExecuteDrop(obj, b)}

\* _get_sequence_initial_value: SELECT MAX(abe_test_1_id) FROM abe_test_1
get_sequence_initial_value(b) == ExecuteRows({"abe_test_1"}, b)

\* INSERT INTO abe_sequences of the row of key abe_test_1
InsertCounterRow(b) ==
    (IF "abe_sequences" \in b.session /\ "abe_test_1_seq" \notin b.session
        THEN {Ok([b EXCEPT !.session = @ \cup {"abe_test_1_seq"}])}
        ELSE {})
    \cup {Fails(b, exc) : exc \in Failures}

\* _create_sequence_update: commit; initial value; INSERT; on DatabaseError
\* rollback, CREATE TABLE abe_sequences (rollback and the first error when
\* that fails), INSERT again
create_sequence_update(b) ==
    Then(get_sequence_initial_value(BackendCommit(b)),
         LAMBDA b1 :
            UNION {IF r.exc # "DatabaseError" THEN {r}
                   ELSE UNION {IF t.exc = "none" THEN InsertCounterRow(t.b)
                               ELSE {Fails(BackendRollback(t.b), "DatabaseError")} :
                               t \in DdlCreate("abe_sequences", {},
                                               BackendRollback(r.b))} :
                   r \in InsertCounterRow(b1)})

\* store.create_sequence('abe_test_1') under the flavour
create_sequence(b) ==
    CASE flavour.create_sequence = "_create_sequence_update" -> create_sequence_update(b)
      [] flavour.create_sequence = "_create_sequence_db2" ->
            \* abe_dual is read, or made, before the sequence
            Then(ExecuteRows({}, BackendCommit(b)),
                 LAMBDA b1 : Then(get_sequence_initial_value(b1),
                                  LAMBDA b2 : DdlCreate("abe_test_1_seq", {}, b2)))
      [] OTHER ->
            \* _create_sequence, _create_sequence_mysql
            Then(get_sequence_initial_value(b),
                 LAMBDA b1 : DdlCreate("abe_test_1_seq", {}, b1))

\* store.new_id('abe_test_1') under the flavour
new_id(b) ==
    IF flavour.new_id = "_new_id_update"
       THEN ExecuteRows({"abe_sequences", "abe_test_1_seq"}, b)
       ELSE ExecuteRows({"abe_test_1_seq"}, b)

\* store.drop_sequence('abe_test_1') under the flavour; _drop_sequence_update
\* is commit, DELETE of the row, commit
drop_sequence(b) ==
    IF flavour.drop_sequence = "_drop_sequence_update"
       THEN IF "abe_sequences" \in b.session
               THEN {Ok(BackendCommit([BackendCommit(b) EXCEPT
                                          !.session = @ \ {"abe_test_1_seq"}]))}
               ELSE {Fails(BackendCommit(b), "DatabaseError")}
       ELSE DdlDrop("abe_test_1_seq", b)

\* drop_sequence_if_exists, and the same try block at the end of
\* _test_sequence_type: a DatabaseError is answered by rollback()
drop_sequence_if_exists(b) ==
    {IF r.exc = "DatabaseError" THEN Ok(BackendRollback(r.b)) ELSE r :
        r \in drop_sequence(b)}

\* one step of a probe on the backend b
Step(op, b) ==
    CASE op = "drop_table_if_exists" -> drop_if_exists("abe_test_1", b)
      [] op = "drop_view_if_exists" -> drop_if_exists("abe_test_v1", b)
      [] op = "drop_sequence_if_exists" -> drop_sequence_if_exists(b)
      [] op = "ddl CREATE TABLE" -> DdlCreate("abe_test_1", {}, b)
      [] op = "ddl CREATE VIEW" -> DdlCreate("abe_test_v1", {"abe_test_1"}, b)
      [] op = "sql INSERT" -> ExecuteRows({"abe_test_1"}, b)
      [] op = "select" -> ExecuteRows({"abe_test_1"}, b)
      [] op = "select view" -> ExecuteRows({"abe_test_1", "abe_test_v1"}, b)
      [] op = "commit" -> {Ok(BackendCommit(b))}
      [] op = "rollback" -> {Ok(BackendRollback(b))}
      [] op = "create_sequence" -> create_sequence(b)
      [] op = "new_id" -> new_id(b)

Probes == {"_test_ddl", "_test_transaction", "configure_max_varchar",
           "configure_clob_type", "_test_binary_type", "_test_int_type",
           "_test_sequence_type", "_test_limit_style"}

\* the steps of a probe before its try block: an exception of one of them
\* leaves the probe
\* (a variant of _test_ddl without the rollback after CREATE TABLE)
BeforeTryWithoutRollback(fn) ==
    CASE fn = "_test_ddl" -> <<"drop_table_if_exists", "ddl CREATE TABLE">>
      [] fn = "_test_int_type" -> <<"drop_view_if_exists", "drop_table_if_exists">>
      [] fn = "_test_sequence_type" ->
            <<"drop_table_if_exists", "drop_sequence_if_exists">>
      [] fn = "configure_max_varchar" ->
            <<"drop_table_if_exists", "drop_table_if_exists">>
      [] OTHER -> <<"drop_table_if_exists">>
BeforeTry(fn) ==
    CASE fn = "_test_ddl" -> <<"drop_table_if_exists", "ddl CREATE TABLE", "rollback">>
      [] fn = "_test_int_type" -> <<"drop_view_if_exists", "drop_table_if_exists">>
      [] fn = "_test_sequence_type" ->
            <<"drop_table_if_exists", "drop_sequence_if_exists">>
      [] fn = "configure_max_varchar" ->
            <<"drop_table_if_exists", "drop_table_if_exists">>
      [] OTHER -> <<"drop_table_if_exists">>

\* the steps of its try block: an exception of one of them is answered by
\* rollback() and the probe returns False
Try(fn) ==
    CASE fn = "_test_ddl" -> <<"select">>
      [] fn = "_test_transaction" ->
            <<"ddl CREATE TABLE", "sql INSERT", "commit", "sql INSERT", "rollback",
              "select">>
      [] fn = "_test_int_type" ->
            <<"ddl CREATE TABLE", "ddl CREATE VIEW", "sql INSERT", "commit",
              "select view", "sql INSERT", "select">>
      [] fn = "_test_sequence_type" ->
            <<"ddl CREATE TABLE", "create_sequence", "new_id", "new_id">>
      [] fn = "_test_limit_style" ->
            <<"ddl CREATE TABLE", "sql INSERT", "sql INSERT", "sql INSERT",
              "sql INSERT", "select">>
      [] OTHER -> <<"ddl CREATE TABLE", "sql INSERT", "select">>

\* the steps of its finally block (for configure_max_varchar, which has none,
\* the drop at the top of the next turn of its loop or the one after the loop)
\* (a variant of a probe without the finally block)
FinallyMissing(fn) == <<>>
Finally(fn) ==
    CASE fn = "_test_int_type" -> <<"drop_view_if_exists", "drop_table_if_exists">>
      [] fn = "_test_sequence_type" ->
            <<"drop_table_if_exists", "drop_sequence_if_exists">>
      [] OTHER -> <<"drop_table_if_exists">>

\* the scratch objects a probe uses
Uses(fn) ==
    CASE fn = "_test_int_type" -> {"abe_test_1", "abe_test_v1"}
      [] fn = "_test_sequence_type" -> {"abe_test_1", "abe_test_1_seq"}
      [] OTHER -> {"abe_test_1"}

\* The backend at the start of a probe: scratch objects of the probe can be
\* left from a run that was killed.  Only _test_ddl runs under a
\* ddl_implicit_commit that has not been tested, 'true' first; the other
\* probes run after it, and 'true' is adopted only on a backend whose DDL
\* commits.
ProbeStart ==
    /\ module = [paramstyle |-> "qmark", LOB |-> FALSE]
    /\ args = NoArgs
    /\ probe \in Probes
    /\ implicit_commit \in BOOLEAN
    /\ \E dic \in {"true", "false"}, st \in SequenceTypes :
          /\ probe = "_test_ddl" => dic = "true"
          /\ dic = "true" => (implicit_commit \/ probe = "_test_ddl")
          /\ probe # "_test_sequence_type" => st = "update"
          /\ config = [EmptyConfig EXCEPT
                          !["ddl_implicit_commit"] = dic,
                          !["create_table_epilogue"] = "",
                          !["sequence_type"] =
                              IF probe = "_test_sequence_type" THEN st ELSE Unset]
    /\ flavour = set_sql_flavour(config, module).flavour
    /\ \E left \in SUBSET (Uses(probe) \cup {"abe_sequences"}) :
          /\ "abe_test_v1" \in left => "abe_test_1" \in left
          /\ ("abe_test_1_seq" \in left /\ flavour.new_id = "_new_id_update")
                => "abe_sequences" \in left
          /\ db = [committed |-> left, session |-> left]
    /\ p_pc = [block |-> "before", i |-> 1]
    /\ p_result = "none"
    /\ faithful = TRUE

ProbeIdle ==
    /\ probe = "_test_ddl"
    /\ implicit_commit = TRUE
    /\ db = [committed |-> {}, session |-> {}]
    /\ p_pc = [block |-> "before", i |-> 1]
    /\ p_result = "none"
    /\ faithful = TRUE

\* the result r of the step op is a failure the backend had no need of: it
\* could have run the statements
Needless(op, r) == r.exc # "none" /\ \E ok \in Step(op, db) : ok.exc = "none"

\* the block that follows a block whose steps are done
NextBlock(i, steps, following) ==
    IF i < Len(steps) THEN [block |-> p_pc.block, i |-> i + 1]
    ELSE [block |-> following, i |-> 1]

\* what a probe whose try block has run to its end returns: _test_ddl returns
\* True, the others compare what they read
Returns(fn) == IF fn = "_test_ddl" THEN {"True"} ELSE {"True", "False"}

\* a step before the try block
ProbeBeforeTry ==
    /\ p_pc.block = "before"
    /\ \E r \in Step(BeforeTry(probe)[p_pc.i], db) :
          /\ db' = r.b
          /\ faithful' = (faithful /\ ~Needless(BeforeTry(probe)[p_pc.i], r))
          /\ IF r.exc = "none"
                THEN /\ p_pc' = NextBlock(p_pc.i, BeforeTry(probe), "try")
                     /\ UNCHANGED p_result
                ELSE /\ p_pc' = [block |-> "done", i |-> 1]
                     /\ p_result' = "raised"
    /\ UNCHANGED <<probe, implicit_commit>>
    /\ UNCHANGED dialectVars
    /\ UNCHANGED notProbeVars

\* a step of the try block; an exception goes to the except clause; after the
\* last step the probe returns True or False
ProbeTry ==
    /\ p_pc.block = "try"
    /\ \E r \in Step(Try(probe)[p_pc.i], db) :
          /\ faithful' = (faithful /\ ~Needless(Try(probe)[p_pc.i], r))
          /\ IF r.exc # "none"
                THEN /\ db' = BackendRollback(r.b)
                     /\ p_result' = "False"
                     /\ p_pc' = [block |-> "finally", i |-> 1]
                ELSE /\ db' = r.b
                     /\ p_pc' = NextBlock(p_pc.i, Try(probe), "finally")
                     /\ IF p_pc.i < Len(Try(probe))
                           THEN UNCHANGED p_result
                           ELSE p_result' \in Returns(probe)
    /\ UNCHANGED <<probe, implicit_commit>>
    /\ UNCHANGED dialectVars
    /\ UNCHANGED notProbeVars

\* a step of the finally block; after the last one the probe has ended
ProbeFinally ==
    /\ p_pc.block = "finally"
    /\ IF Finally(probe) = <<>>
          THEN /\ p_pc' = [block |-> "done", i |-> 1]
               /\ UNCHANGED <<db, p_result, faithful>>
          ELSE \E r \in Step(Finally(probe)[p_pc.i], db) :
                  /\ db' = r.b
                  /\ faithful' = (faithful /\ ~Needless(Finally(probe)[p_pc.i], r))
                  /\ IF r.exc = "none"
                        THEN /\ p_pc' = NextBlock(p_pc.i, Finally(probe), "done")
                             /\ UNCHANGED p_result
                        ELSE /\ p_pc' = [block |-> "done", i |-> 1]
                             /\ p_result' = "raised"
    /\ UNCHANGED <<probe, implicit_commit>>
    /\ UNCHANGED dialectVars
    /\ UNCHANGED notProbeVars

(***************************************************************************)
(* Construction of the store, run after run, against one database.         *)
(*                                                                         *)
(* The database keeps what is committed and what the session of the run    *)
(* sees; a run that ends leaves its connection, and what it had not        *)
(* committed is lost.  The schema objects are the first NumSchemaStmts     *)
(* objects of SchemaStmts, "sequences" (the nine sequences), "rows" (the   *)
(* rows initialize() inserts) and "abe_firstbits".  configvar maps a name  *)
(* to the value of its row, Unset when there is no row; "NULL" is the SQL  *)
(* NULL.  Any statement can fail.                                          *)
(***************************************************************************)
\* how many runs the model follows
MaxRuns == 2

\* a schema_version that an earlier release wrote
OldSchemaVersion == "Abe28"

NoRows == [k \in ConfigKeys |-> Unset]

\* the eight parameters configure() negotiates
Negotiated == {"ddl_implicit_commit", "create_table_epilogue", "max_varchar",
               "clob_type", "binary_type", "int_type", "sequence_type", "limit_style"}

SchemaObjects == {SchemaStmts[i] : i \in 1 .. NumSchemaStmts}

\* no legacy table config
NoLegacy == [schema_version |-> Unset, binary_type |-> Unset]

\* a backend that keeps '' as NULL (Oracle) stores the value so
StoredValue(value) == IF value = "" /\ backend.empty_is_null THEN "NULL" ELSE value

\* _read_config: '' if value is None else value
ReadValue(value) == IF value = "NULL" THEN "" ELSE value

\* store.config.keys()
keys(cfg) == {k \in ConfigKeys : cfg[k] # Unset}

\* (a variant that reads configvar as it reads the legacy table)
read_configTwoKeys(st) ==
    IF "configvar" \in st.objects_s /\ keys(st.rows_s) # {}
       THEN [k \in ConfigKeys |->
                IF k \in {"schema_version", "binary_type"} THEN ReadValue(st.rows_s[k])
                ELSE Unset]
    ELSE IF st.legacy # NoLegacy
       THEN [EmptyConfig EXCEPT !["schema_version"] = st.legacy.schema_version,
                                !["binary_type"] = st.legacy.binary_type]
    ELSE NoConfig
\* _read_config: the rows of configvar when it can be read and has rows;
\* otherwise the legacy table config when it can be read; otherwise None
read_config(st) ==
    IF "configvar" \in st.objects_s /\ keys(st.rows_s) # {}
       THEN [k \in ConfigKeys |-> ReadValue(st.rows_s[k])]
    ELSE IF st.legacy # NoLegacy
       THEN [EmptyConfig EXCEPT !["schema_version"] = st.legacy.schema_version,
                                !["binary_type"] = st.legacy.binary_type]
    ELSE NoConfig

\* (a variant that initializes whenever the version is not the current one)
DispatchInitializesOnMismatch(cfg, a) ==
    IF cfg = NoConfig THEN "initialize"
    ELSE IF cfg["schema_version"] = Unset THEN "KeyError"
    ELSE IF cfg["schema_version"] = SCHEMA_VERSION THEN "pass"
    ELSE "initialize"
\* (a variant that initializes whatever was read)
DispatchAlwaysInitializes(cfg, a) == "initialize"
\* __init__: what follows _read_config
Dispatch(cfg, a) ==
    IF cfg = NoConfig THEN "initialize"
    ELSE IF cfg["schema_version"] = Unset THEN "KeyError"
    ELSE IF cfg["schema_version"] = SCHEMA_VERSION THEN "pass"
    ELSE IF a.upgrade THEN "upgrade"
    ELSE "Please run with --upgrade"

\* (a variant that never inserts)
save_configvarUpdateOnly(rows, cfg, name) ==
    IF rows[name] = Unset THEN rows ELSE [rows EXCEPT ![name] = StoredValue(cfg[name])]
\* save_configvar: UPDATE the row, INSERT it when the UPDATE found none
save_configvar(rows, cfg, name) ==
    LET rowcount == IF rows[name] = Unset THEN 0 ELSE 1
        updated == IF rowcount = 0 THEN rows
                   ELSE [rows EXCEPT ![name] = StoredValue(cfg[name])]
    IN  IF rowcount = 0 THEN [updated EXCEPT ![name] = StoredValue(cfg[name])]
        ELSE updated

\* save_configvar for every name of names
RECURSIVE SaveAll(_, _, _)
SaveAll(rows, cfg, names) ==
    IF names = {} THEN rows
    ELSE LET name == CHOOSE k \in names : TRUE
         IN  SaveAll(save_configvar(rows, cfg, name), cfg, names \ {name})

\* conn.commit() of everything the session has done
StoreCommit(st) == [st EXCEPT !.objects_c = st.objects_s, !.rows_c = st.rows_s]

\* what a connection that is dropped leaves
Disconnected(st) == [st EXCEPT !.objects_s = st.objects_c, !.rows_s = st.rows_c]

\* store.ddl("CREATE ... obj"): the backend or ddl() commits
Created(st, obj, cfg) ==
    LET made == [st EXCEPT !.objects_s = @ \cup {obj}]
    IN  IF backend.implicit_commit \/ DdlCommits(cfg["ddl_implicit_commit"])
           THEN StoreCommit(made)
           ELSE made

\* the configurations configure() can end with on the backend: for every
\* parameter one of its candidates (max_varchar: a width, clob_type: the
\* first one); ddl_implicit_commit is the one that is true of the backend.
\* The model takes the configurations in which at most one of the four
\* parameters of the flavour is not the first of its candidates.
FlavourParams == {"binary_type", "int_type", "sequence_type", "limit_style"}

Configurations(a) ==
    {cfg \in
        {[EmptyConfig EXCEPT
             !["ddl_implicit_commit"] =
                 IF backend.implicit_commit THEN "true" ELSE "false",
             !["create_table_epilogue"] = Candidates("create_table_epilogue", a)[e],
             !["max_varchar"] = str(MaxWidth - 1),
             !["clob_type"] = "CLOB",
             !["binary_type"] = Candidates("binary_type", a)[b],
             !["int_type"] = Candidates("int_type", a)[n],
             !["sequence_type"] = Candidates("sequence_type", a)[q],
             !["limit_style"] = Candidates("limit_style", a)[l]] :
            e \in 1 .. Len(Candidates("create_table_epilogue", a)),
            b \in 1 .. Len(Candidates("binary_type", a)),
            n \in 1 .. Len(Candidates("int_type", a)),
            q \in 1 .. Len(Candidates("sequence_type", a)),
            l \in 1 .. Len(Candidates("limit_style", a))} :
        Cardinality({p \in FlavourParams : cfg[p] # Candidates(p, a)[1]}) <= 1}

\* the databases the first run can find: an empty one, one that an earlier
\* release initialized, one with the legacy table config
OldConfig ==
    [ddl_implicit_commit |-> "false", create_table_epilogue |-> "",
     max_varchar |-> str(MaxWidth - 1), clob_type |-> "CLOB", binary_type |-> "hex",
     int_type |-> "int", sequence_type |-> "update", limit_style |-> "native",
     schema_version |-> OldSchemaVersion, use_firstbits |-> "false",
     keep_scriptsig |-> "false"]

Databases ==
    {[objects_c |-> {}, objects_s |-> {}, rows_c |-> NoRows, rows_s |-> NoRows,
      legacy |-> NoLegacy],
     [objects_c |-> SchemaObjects \cup {"sequences", "rows"},
      objects_s |-> SchemaObjects \cup {"sequences", "rows"},
      rows_c |-> OldConfig, rows_s |-> OldConfig, legacy |-> NoLegacy],
     [objects_c |-> (SchemaObjects \ {"configvar"}) \cup {"sequences", "rows"},
      objects_s |-> (SchemaObjects \ {"configvar"}) \cup {"sequences", "rows"},
      rows_c |-> NoRows, rows_s |-> NoRows,
      legacy |-> [schema_version |-> "6", binary_type |-> "str"]]}

RunArgs ==
    {[NoArgs EXCEPT !.upgrade = u, !.use_firstbits = f] : u \in BOOLEAN, f \in BOOLEAN}

StartStart ==
    /\ module \in {[paramstyle |-> "qmark", LOB |-> FALSE],
                   [paramstyle |-> "named", LOB |-> TRUE]}
    /\ args \in RunArgs
    /\ config = NoConfig
    /\ flavour = NoFlavour
    /\ backend \in [implicit_commit : BOOLEAN, empty_is_null : BOOLEAN]
    /\ stored \in Databases
    /\ at_start = stored
    /\ run = 1
    /\ s_pc = [at |-> "_read_config", i |-> 1]
    /\ did = <<>>
    /\ read = NoConfig
    /\ negotiated = NoFlavour
    /\ raised = ""

StartIdle ==
    /\ backend = [implicit_commit |-> FALSE, empty_is_null |-> FALSE]
    /\ stored = [objects_c |-> {}, objects_s |-> {}, rows_c |-> NoRows,
                 rows_s |-> NoRows, legacy |-> NoLegacy]
    /\ at_start = stored
    /\ run = 1
    /\ s_pc = [at |-> "_read_config", i |-> 1]
    /\ did = <<>>
    /\ read = NoConfig
    /\ negotiated = NoFlavour
    /\ raised = ""

\* the exception exc leaves __init__
Fail(exc) ==
    /\ s_pc' = [at |-> "failed", i |-> 1]
    /\ raised' = exc

To(at) ==
    /\ s_pc' = [at |-> at, i |-> 1]
    /\ UNCHANGED raised

\* store.config = store._read_config(); an error that is not a DatabaseError
\* leaves __init__
StartReadConfig ==
    /\ s_pc.at = "_read_config"
    /\ did' = Append(did, "_read_config")
    /\ \/ /\ config' = read_config(stored)
          /\ read' = config'
          /\ To("dispatch")
       \/ /\ Fail("InterfaceError")
          /\ UNCHANGED <<config, read>>
    /\ stored' = Disconnected(stored)
    /\ UNCHANGED <<module, args, flavour, backend, at_start, run, negotiated>>
    /\ UNCHANGED notStartVars

\* __init__: initialize(), pass, upgrade or raise
StartDispatch ==
    /\ s_pc.at = "dispatch"
    /\ LET then == Dispatch(config, args)
       IN  CASE then = "initialize" ->
                   /\ To("configure")
                   /\ UNCHANGED <<flavour, did>>
             [] then = "pass" ->
                   /\ To("_set_sql_flavour")
                   /\ UNCHANGED <<flavour, did>>
             [] then = "upgrade" ->
                   \* _set_sql_flavour(), then upgrade_schema(), which the
                   \* model does not follow
                   LET r == set_sql_flavour(config, module)
                   IN  /\ IF r.raised THEN Fail(r.exc) ELSE To("upgrade")
                       /\ flavour' = r.flavour
                       /\ did' = Append(did, "_set_sql_flavour")
             [] OTHER ->
                   /\ Fail(then)
                   /\ UNCHANGED <<flavour, did>>
    /\ UNCHANGED <<module, args, config, backend, stored, at_start, run, read,
                   negotiated>>
    /\ UNCHANGED notStartVars

\* initialize: store.configure(), which ends with a configuration and its
\* flavour, or raises
StartConfigure ==
    /\ s_pc.at = "configure"
    /\ did' = Append(did, "configure")
    /\ \/ \E cfg \in Configurations(args) :
             /\ config' = cfg
             /\ flavour' = set_sql_flavour(cfg, module).flavour
             /\ To("ddl")
       \/ /\ \E p \in Negotiated \ {"max_varchar", "clob_type"} :
                Fail(NoCandidate(p, args))
          /\ config' = EmptyConfig
          /\ UNCHANGED flavour
    /\ UNCHANGED <<module, args, backend, stored, at_start, run, read, negotiated>>
    /\ UNCHANGED notStartVars

\* initialize: one statement of the schema loop
StartDdl ==
    /\ s_pc.at = "ddl"
    /\ did' = Append(did, "ddl")
    /\ \/ /\ SchemaStmts[s_pc.i] \notin stored.objects_s
          /\ stored' = Created(stored, SchemaStmts[s_pc.i], config)
          /\ IF s_pc.i < NumSchemaStmts
                THEN /\ s_pc' = [s_pc EXCEPT !.i = @ + 1]
                     /\ UNCHANGED raised
                ELSE To("create_sequence")
       \/ /\ Fail("DatabaseError")
          /\ UNCHANGED stored
    /\ UNCHANGED <<module, args, config, flavour, backend, at_start, run, read,
                   negotiated>>
    /\ UNCHANGED notStartVars

\* initialize: the loop of create_sequence
StartCreateSequences ==
    /\ s_pc.at = "create_sequence"
    /\ did' = Append(did, "create_sequence")
    /\ \/ /\ "sequences" \notin stored.objects_s
          /\ stored' = IF config["sequence_type"] = "update"
                          THEN [StoreCommit(stored) EXCEPT !.objects_s = @ \cup {"sequences"}]
                          ELSE Created(stored, "sequences", config)
          /\ To("insert")
       \/ /\ Fail("DatabaseError")
          /\ UNCHANGED stored
    /\ UNCHANGED <<module, args, config, flavour, backend, at_start, run, read,
                   negotiated>>
    /\ UNCHANGED notStartVars

\* initialize: the INSERTs into abe_lock, pubkey, magic, policy and chain
StartInsertRows ==
    /\ s_pc.at = "insert"
    /\ did' = Append(did, "insert")
    /\ \/ /\ stored' = [stored EXCEPT !.objects_s = @ \cup {"rows"}]
          /\ To("firstbits")
       \/ /\ Fail("DatabaseError")
          /\ UNCHANGED stored
    /\ UNCHANGED <<module, args, config, flavour, backend, at_start, run, read,
                   negotiated>>
    /\ UNCHANGED notStartVars

\* initialize: use_firstbits and its table, keep_scriptsig
StartFirstbits ==
    /\ s_pc.at = "firstbits"
    /\ did' = Append(did, "firstbits")
    /\ IF args.use_firstbits
          THEN \/ /\ "abe_firstbits" \notin stored.objects_s
                  /\ stored' = Created(stored, "abe_firstbits", config)
                  /\ config' = [config EXCEPT !["use_firstbits"] = "true",
                                              !["keep_scriptsig"] = "false"]
                  /\ To("save_config")
               \/ /\ Fail("DatabaseError")
                  /\ config' = [config EXCEPT !["use_firstbits"] = "true"]
                  /\ UNCHANGED stored
          ELSE /\ config' = [config EXCEPT !["use_firstbits"] = "false",
                                           !["keep_scriptsig"] = "false"]
               /\ To("save_config")
               /\ UNCHANGED stored
    /\ UNCHANGED <<module, args, flavour, backend, at_start, run, read, negotiated>>
    /\ UNCHANGED notStartVars

\* initialize: save_config(); the names come in the order of the dict, and a
\* statement that fails leaves the ones before it written in the session
StartSaveConfig ==
    /\ s_pc.at = "save_config"
    /\ did' = Append(did, "save_config")
    /\ config' = [config EXCEPT !["schema_version"] = SCHEMA_VERSION]
    /\ \/ /\ stored' = [stored EXCEPT !.rows_s = SaveAll(@, config', keys(config'))]
          /\ To("commit")
       \/ /\ \E written \in {{}, {"schema_version"}, {"schema_version", "binary_type"}} :
                stored' = [stored EXCEPT !.rows_s = SaveAll(@, config', written)]
          /\ Fail("DatabaseError")
    /\ UNCHANGED <<module, args, flavour, backend, at_start, run, read, negotiated>>
    /\ UNCHANGED notStartVars

\* initialize: store.commit()
StartCommit ==
    /\ s_pc.at = "commit"
    /\ did' = Append(did, "commit")
    /\ \/ /\ stored' = StoreCommit(stored)
          /\ To("_set_sql_flavour")
       \/ /\ Fail("OperationalError")
          /\ UNCHANGED stored
    /\ UNCHANGED <<module, args, config, flavour, backend, at_start, run, read,
                   negotiated>>
    /\ UNCHANGED notStartVars

\* __init__: store._set_sql_flavour(); store.auto_reconnect = True
StartSetSqlFlavour ==
    /\ s_pc.at = "_set_sql_flavour"
    /\ did' = Append(did, "_set_sql_flavour")
    /\ LET r == set_sql_flavour(config, module)
       IN  /\ IF r.raised THEN Fail(r.exc) ELSE To("ready")
           /\ flavour' = IF r.raised THEN flavour ELSE r.flavour
           /\ negotiated' = IF ~r.raised /\ read = NoConfig THEN r.flavour
                            ELSE negotiated
    /\ UNCHANGED <<module, args, config, backend, stored, at_start, run, read>>
    /\ UNCHANGED notStartVars

\* the process ends, its connection is dropped, and the store is constructed
\* again
StartAgain ==
    /\ s_pc.at \in {"ready", "failed"}
    /\ run < MaxRuns
    /\ run' = run + 1
    /\ args' \in {[args EXCEPT !.upgrade = u] : u \in BOOLEAN}
    /\ config' = NoConfig
    /\ flavour' = NoFlavour
    /\ stored' = Disconnected(stored)
    /\ at_start' = stored'
    /\ s_pc' = [at |-> "_read_config", i |-> 1]
    /\ did' = <<>>
    /\ read' = NoConfig
    /\ raised' = ""
    /\ UNCHANGED <<module, backend, negotiated>>
    /\ UNCHANGED notStartVars

\* configure_ddl_implicit_commit: _test_ddl has returned False under 'true',
\* and the loop goes on with 'false'
ProbeDdlNextCandidate ==
    /\ probe = "_test_ddl"
    /\ p_pc.block = "done"
    /\ p_result = "False"
    /\ config["ddl_implicit_commit"] = "true"
    /\ config' = [config EXCEPT !["ddl_implicit_commit"] = "false"]
    /\ flavour' = set_sql_flavour(config', module).flavour
    /\ p_pc' = [block |-> "before", i |-> 1]
    /\ p_result' = "none"
    /\ UNCHANGED <<probe, implicit_commit, db, faithful>>
    /\ UNCHANGED <<module, args>>
    /\ UNCHANGED notProbeVars

(***************************************************************************)
(* LIMIT emulation: emulate_limit wraps selectall when limit_style is      *)
(* 'emulated'.  A statement is the sequence of its clauses; the backend    *)
(* reads one table of numeric ids, as _test_limit_style does.              *)
(***************************************************************************)

\* the largest row count a LIMIT asks for, and the most rows of the table
MaxLimit == 3
MaxRows == 3

\* the ids _test_limit_style inserts
TestIds == {2, 4, 6, 8}

SelectClause == "SELECT abe_test_1_id FROM abe_test_1"
WhereClause == "WHERE abe_test_1_id > ?"
OrderClause == "ORDER BY abe_test_1_id"

\* the decimal literals \d+ that stand for the counts 0..MaxLimit
Literals == {ToString(n) : n \in 0..MaxLimit}

\* int(match.group(2)) of a literal
LiteralValue(tok) == CHOOSE n \in 0..MaxLimit : ToString(n) = tok

\* the ids of a set in ascending order
RECURSIVE Ascending(_)
Ascending(S) ==
    IF S = {} THEN <<>>
    ELSE LET least == CHOOSE x \in S : \A y \in S : x <= y
         IN  <<least>> \o Ascending(S \ {least})

\* limit_re.match(stmt): the statement ends in LIMIT and a ? or a literal;
\* group(1) is what stands before LIMIT and group(2) the ? or the literal
limit_re(stmt) ==
    IF /\ Len(stmt) >= 2
       /\ stmt[Len(stmt) - 1] = "LIMIT"
       /\ stmt[Len(stmt)] \in Literals \cup {"?"}
       THEN [match |-> TRUE, group1 |-> SubSeq(stmt, 1, Len(stmt) - 2),
             group2 |-> stmt[Len(stmt)]]
       ELSE [match |-> FALSE, group1 |-> stmt, group2 |-> ""]

\* the backend's evaluation of a statement over the table: the rows the WHERE
\* clause keeps (its ? is the first parameter), in the order of ORDER BY, and
\* of them the first n when the statement ends in LIMIT n (a ? is the last
\* parameter): SQL's LIMIT, which gives every row when there are fewer
Execute(stmt, params, table) ==
    LET m == limit_re(stmt)
        has_where == \E i \in DOMAIN stmt : stmt[i] = WhereClause
        kept == {id \in table : has_where => id > params[1]}
        rows == Ascending(kept)
        n == IF m.group2 = "?" THEN params[Len(params)] ELSE LiteralValue(m.group2)
    IN  IF m.match
           THEN SubSeq(rows, 1, IF n < Len(rows) THEN n ELSE Len(rows))
           ELSE rows

\* store.cursor.fetchone(), the i-th time after a statement that gave rows
fetchone(rows, i) == IF i <= Len(rows) THEN rows[i] ELSE None

\* _selectall: store.sql(stmt, params), then fetchall
_selectall(stmt, params, table) ==
    [sent |-> [stmt |-> stmt, params |-> params],
     rows |-> Execute(stmt, params, table)]

\* emulate_limit(selectall)(stmt, params): ret
emulate_limit(stmt, params, table) ==
    LET m == limit_re(stmt)
        n == IF m.group2 = "?" THEN params[Len(params)] ELSE LiteralValue(m.group2)
        passed == IF m.group2 = "?" THEN SubSeq(params, 1, Len(params) - 1) ELSE params
        rows == Execute(m.group1, passed, table)
    IN  IF m.match
           THEN [sent |-> [stmt |-> m.group1, params |-> passed],
                 rows |-> [i \in 1..n |-> fetchone(rows, i)]]
           ELSE _selectall(stmt, params, table)

\* the calls of selectall: with or without WHERE, with no LIMIT, LIMIT n or
\* LIMIT ?
LimitCalls ==
    {[stmt |-> <<SelectClause>> \o w.clause \o <<OrderClause>> \o l.clause,
      params |-> w.params \o l.params] :
        w \in {[clause |-> <<>>, params |-> <<>>]}
              \cup {[clause |-> <<WhereClause>>, params |-> <<t>>] : t \in {1, 5}},
        l \in {[clause |-> <<>>, params |-> <<>>]}
              \cup {[clause |-> <<"LIMIT", ToString(n)>>, params |-> <<>>] :
                       n \in 0..MaxLimit}
              \cup {[clause |-> <<"LIMIT", "?">>, params |-> <<n>>] :
                       n \in 0..MaxLimit}}

LimitStart ==
    /\ limit_style \in {"native", "emulated"}
    /\ lim_table \in {T \in SUBSET TestIds : Cardinality(T) <= MaxRows}
    /\ \E c \in LimitCalls : lim_stmt = c.stmt /\ lim_params = c.params
    /\ lim_sent = None
    /\ lim_rows = None
    /\ lim_pc = "call"

LimitIdle ==
    /\ limit_style = "native"
    /\ lim_table = {}
    /\ lim_stmt = <<>>
    /\ lim_params = <<>>
    /\ lim_sent = None
    /\ lim_rows = None
    /\ lim_pc = "idle"

\* store.selectall(stmt, params): set_flavour wraps _selectall in
\* emulate_limit when limit_style is 'emulated'
LimitSelectall ==
    /\ lim_pc = "call"
    /\ LET r == IF limit_style = "emulated"
                   THEN emulate_limit(lim_stmt, lim_params, lim_table)
                   ELSE _selectall(lim_stmt, lim_params, lim_table)
       IN  /\ lim_sent' = r.sent
           /\ lim_rows' = r.rows
    /\ lim_pc' = "done"
    /\ UNCHANGED <<limit_style, lim_table, lim_stmt, lim_params>>
    /\ UNCHANGED notLimitVars

\* the caller's next call of selectall
LimitNextCall ==
    /\ lim_pc = "done"
    /\ \E c \in LimitCalls : lim_stmt' = c.stmt /\ lim_params' = c.params
    /\ lim_pc' = "call"
    /\ UNCHANGED <<limit_style, lim_table, lim_sent, lim_rows>>
    /\ UNCHANGED notLimitVars

(***************************************************************************)
(* The advisory lock: get_lock and release_lock.                           *)
(*                                                                         *)
(* Every process has its store connection and, inside get_lock, a second   *)
(* connection whose open transaction updates the one row of abe_lock.  An  *)
(* UPDATE of a row that another open transaction has written waits for     *)
(* that transaction to end, or gives up with an error when the backend's   *)
(* lock wait times out.  A backend without concurrent updates (SQLite)     *)
(* refuses the INSERT of the store connection while the lock connection's  *)
(* transaction is open.                                                    *)
(***************************************************************************)

\* the most connections get_lock gives in one behaviour
MaxLocks == 3

\* os.getpid() of a process
getpid(p) == p

\* conn.rollback(); conn.close() of the lock connection of p: its write of the
\* row is undone and the row is free
CloseLockConn(p) ==
    /\ lock_conn' = [lock_conn EXCEPT ![p] = "closed"]
    /\ lock_writer' = IF lock_writer = p THEN 0 ELSE lock_writer

LockStart ==
    /\ concurrent \in BOOLEAN
    /\ lock_row \in BOOLEAN
    /\ lock_pid = None
    /\ lock_writer = 0
    /\ below_abe26 \in [Procs -> BOOLEAN]
    /\ lock_conn = [p \in Procs |-> "none"]
    /\ store_txn = [p \in Procs |-> FALSE]
    /\ lock_pc = [p \in Procs |-> "get_lock"]
    /\ acquired = <<>>

LockIdle ==
    /\ concurrent = FALSE
    /\ lock_row = FALSE
    /\ lock_pid = None
    /\ lock_writer = 0
    /\ below_abe26 = [p \in Procs |-> FALSE]
    /\ lock_conn = [p \in Procs |-> "none"]
    /\ store_txn = [p \in Procs |-> FALSE]
    /\ lock_pc = [p \in Procs |-> "idle"]
    /\ acquired = <<>>

\* get_lock: below Abe26 it returns None; otherwise conn = store.connect()
GetLockConnect(p) ==
    /\ lock_pc[p] = "get_lock"
    /\ Len(acquired) < MaxLocks
    /\ IF below_abe26[p]
          THEN /\ lock_pc' = [lock_pc EXCEPT ![p] = "returned None"]
               /\ UNCHANGED lock_conn
          ELSE /\ lock_pc' = [lock_pc EXCEPT ![p] = "update"]
               /\ lock_conn' = [lock_conn EXCEPT ![p] = "open"]
    /\ UNCHANGED <<concurrent, lock_row, lock_pid, lock_writer, below_abe26,
                   store_txn, acquired>>
    /\ UNCHANGED notLockVars

\* UPDATE abe_lock SET pid = getpid() WHERE lock_id = 1 on the lock
\* connection, once no other transaction has the row; a rowcount other than 1
\* raises, and the connection that get_lock alone knew is dropped
GetLockUpdate(p) ==
    /\ lock_pc[p] = "update"
    /\ lock_writer = 0
    /\ IF lock_row
          THEN /\ lock_writer' = p
               /\ lock_pc' = [lock_pc EXCEPT ![p] = "insert"]
               /\ UNCHANGED lock_conn
          ELSE /\ CloseLockConn(p)
               /\ lock_pc' = [lock_pc EXCEPT ![p] = "raised"]
    /\ UNCHANGED <<concurrent, lock_row, lock_pid, below_abe26, store_txn, acquired>>
    /\ UNCHANGED notLockVars

\* the UPDATE waits for the row and the backend gives up: cur.execute raises
GetLockUpdateTimeout(p) ==
    /\ lock_pc[p] = "update"
    /\ lock_writer # 0
    /\ CloseLockConn(p)
    /\ lock_pc' = [lock_pc EXCEPT ![p] = "raised"]
    /\ UNCHANGED <<concurrent, lock_row, lock_pid, below_abe26, store_txn, acquired>>
    /\ UNCHANGED notLockVars

\* release_lock(conn) of the lock connection of p, if it has one
release_lock(p) ==
    /\ IF lock_conn[p] = "open"
          THEN CloseLockConn(p)
          ELSE UNCHANGED <<lock_conn, lock_writer>>
    /\ UNCHANGED lock_pid

\* the INSERT into configvar on the store connection: where it fails, as it
\* does on a backend without concurrent updates, release_lock(conn) and
\* conn = None
\* (a variant that keeps the lock connection when the INSERT fails)
GetLockInsertKeepsConn(p) ==
    /\ lock_pc[p] = "insert"
    /\ \E inserted \in {b \in BOOLEAN : b => concurrent} :
          store_txn' = [store_txn EXCEPT ![p] = inserted]
    /\ lock_pc' = [lock_pc EXCEPT ![p] = "rollback"]
    /\ UNCHANGED <<concurrent, lock_row, below_abe26, acquired, lock_conn, lock_writer,
                   lock_pid>>
    /\ UNCHANGED notLockVars
GetLockInsert(p) ==
    /\ lock_pc[p] = "insert"
    /\ \E inserted \in {b \in BOOLEAN : b => concurrent} :
          IF inserted
             THEN /\ store_txn' = [store_txn EXCEPT ![p] = TRUE]
                  /\ UNCHANGED <<lock_conn, lock_writer, lock_pid>>
             ELSE /\ release_lock(p)
                  /\ UNCHANGED store_txn
    /\ lock_pc' = [lock_pc EXCEPT ![p] = "rollback"]
    /\ UNCHANGED <<concurrent, lock_row, below_abe26, acquired>>
    /\ UNCHANGED notLockVars

\* (a variant that rolls back the lock connection, not the store's)
GetLockRollbackLockConn(p) ==
    /\ lock_pc[p] = "rollback"
    /\ lock_writer' = IF lock_writer = p THEN 0 ELSE lock_writer
    /\ lock_pc' = [lock_pc EXCEPT ![p] =
                      IF lock_conn[p] = "open" THEN "holding" ELSE "returned None"]
    /\ acquired' = IF lock_conn[p] = "open" THEN Append(acquired, p) ELSE acquired
    /\ UNCHANGED <<concurrent, lock_row, lock_pid, below_abe26, lock_conn, store_txn>>
    /\ UNCHANGED notLockVars
\* store.rollback() and return conn
GetLockRollback(p) ==
    /\ lock_pc[p] = "rollback"
    /\ store_txn' = [store_txn EXCEPT ![p] = FALSE]
    /\ lock_pc' = [lock_pc EXCEPT ![p] =
                      IF lock_conn[p] = "open" THEN "holding" ELSE "returned None"]
    /\ acquired' = IF lock_conn[p] = "open" THEN Append(acquired, p) ELSE acquired
    /\ UNCHANGED <<concurrent, lock_row, lock_pid, lock_writer, below_abe26,
                   lock_conn>>
    /\ UNCHANGED notLockVars

\* release_lock(conn) by the caller of get_lock, which may call get_lock again
ReleaseLock(p) ==
    /\ lock_pc[p] \in {"holding", "returned None"}
    /\ release_lock(p)
    /\ lock_pc' = [lock_pc EXCEPT ![p] = "get_lock"]
    /\ UNCHANGED <<concurrent, lock_row, below_abe26, store_txn, acquired>>
    /\ UNCHANGED notLockVars

(***************************************************************************)
(* The block metadata cache: cache_block and _load_block.                  *)
(***************************************************************************)

\* the most blocks of the table, and the most operations of one behaviour
MaxBlocks == 3
MaxCacheOps == 5

\* the table block of a chain of n blocks: block i stands at height i - 1 on
\* block i - 1, and searches from the block before that
ChainRows(n) ==
    [i \in 1..n |-> [height |-> i - 1,
                     prev_id |-> IF i = 1 THEN None ELSE i - 1,
                     search_id |-> IF i <= 2 THEN None ELSE i - 2]]

\* what an insertion or an update of a block hands to cache_block: the row, or
\* the row with its search_block_id set anew
Updates(block_id) ==
    {block_rows[block_id],
     [block_rows[block_id] EXCEPT !.search_id = IF @ = None THEN block_id ELSE None]}

\* (a variant that starts the dictionary anew)
cache_blockAlone(blocks, block_id, height, prev_id, search_id) ==
    [i \in {block_id} |->
        [height |-> height, prev_id |-> prev_id, search_id |-> search_id]]
\* cache_block: store._blocks[block_id] = block
cache_block(blocks, block_id, height, prev_id, search_id) ==
    [i \in DOMAIN blocks \cup {block_id} |->
        IF i = block_id
           THEN [height |-> height, prev_id |-> prev_id, search_id |-> search_id]
           ELSE blocks[i]]

\* _load_block, after the SELECT has given the row: the row is stored under
\* block_id
StoreLoaded(blocks, block_id, r) ==
    cache_block(blocks, block_id, r.height, r.prev_id, r.search_id)

CacheStart ==
    /\ _blocks = <<>>
    /\ block_rows \in {ChainRows(n) : n \in 1..MaxBlocks}
    /\ row_reads = 0
    /\ cache_op = [op |-> "", block_id |-> 0, hit |-> FALSE]
    /\ cache_ops = 0

CacheIdle ==
    /\ _blocks = <<>>
    /\ block_rows = <<>>
    /\ row_reads = 0
    /\ cache_op = [op |-> "", block_id |-> 0, hit |-> FALSE]
    /\ cache_ops = MaxCacheOps

\* _load_block(block_id) of a block of the table
LoadBlock(block_id) ==
    /\ cache_ops < MaxCacheOps
    /\ IF block_id \in DOMAIN _blocks
          THEN UNCHANGED <<_blocks, row_reads>>
          ELSE /\ row_reads' = row_reads + 1
               /\ _blocks' = StoreLoaded(_blocks, block_id, block_rows[block_id])
    /\ cache_op' = [op |-> "_load_block", block_id |-> block_id,
                    hit |-> block_id \in DOMAIN _blocks]
    /\ cache_ops' = cache_ops + 1
    /\ UNCHANGED block_rows
    /\ UNCHANGED notCacheVars

\* cache_block(block_id, height, prev_id, search_id), as the insertion or the
\* update of a block calls it
CacheBlock(block_id, height, prev_id, search_id) ==
    /\ cache_ops < MaxCacheOps
    /\ _blocks' = cache_block(_blocks, block_id, height, prev_id, search_id)
    /\ cache_op' = [op |-> "cache_block", block_id |-> block_id,
                    hit |-> block_id \in DOMAIN _blocks]
    /\ cache_ops' = cache_ops + 1
    /\ UNCHANGED <<block_rows, row_reads>>
    /\ UNCHANGED notCacheVars

(***************************************************************************)
(* The chain index: insertion of blocks, orphans, chain candidacy and     *)
(* reorganization of one chain.                                            *)
(*                                                                         *)
(* The tables are those of the schema; the insertion of a block is not in  *)
(* DataStore.py as it stands here, and is written from the specification   *)
(* of the chain index model.  Blocks are offered in any order, each one    *)
(* until it is stored; hashes are numbers, 1 the hash of the genesis       *)
(* block and 0 the null hash.                                              *)
(***************************************************************************)

\* the most blocks offered to the store
MaxChainBlocks == 5

\* the trees of blocks on the genesis block 1: every other block names an
\* earlier block as its parent
BlockTrees ==
    {[h \in 1..MaxChainBlocks |-> IF h = 1 THEN 0 ELSE f[h]] :
        f \in {g \in [2..MaxChainBlocks -> 1..MaxChainBlocks] :
                  \A h \in 2..MaxChainBlocks : g[h] < h}}

\* the transaction hashes of a block, the root over a list of hashes (the
\* pairing of hashes is kept as it stands) and the root the header declares
TxHashes(h) == <<10 * h + 1, 10 * h + 2>>
MerkleRoot(tx_hashes) == <<"Hash", tx_hashes[1], tx_hashes[2]>>
DeclaredRoot(h) ==
    IF h = bad_merkle THEN MerkleRoot(<<10 * h + 2, 10 * h + 1>>)
    ELSE MerkleRoot(TxHashes(h))

\* class InvalidBlock(Exception), class MerkleRootMismatch(InvalidBlock)
Bases(class) ==
    CASE class = "MerkleRootMismatch" -> {"MerkleRootMismatch", "InvalidBlock", "Exception"}
      [] class = "InvalidBlock" -> {"InvalidBlock", "Exception"}
      [] OTHER -> {"Exception"}

\* no exception
NoException == [class |-> "", block_hash |-> 0, tx_hashes |-> <<>>]

\* (a variant whose constructor keeps the first transaction hash alone)
MerkleRootMismatchFirstTx(block_hash, tx_hashes) ==
    [class |-> "MerkleRootMismatch", block_hash |-> block_hash,
     tx_hashes |-> <<tx_hashes[1]>>]
\* MerkleRootMismatch.__init__(ex, block_hash, tx_hashes)
MerkleRootMismatch(block_hash, tx_hashes) ==
    [class |-> "MerkleRootMismatch", block_hash |-> block_hash,
     tx_hashes |-> tx_hashes]

\* the tables as one value
Tables == [block |-> block_table, orphan |-> orphan_block, cc |-> chain_candidate,
           tip |-> chain_last_block_id]

\* the block_id of the stored block of a hash (None: not stored)
IdOf(blk, hash) ==
    IF \E i \in DOMAIN blk : blk[i].block_hash = hash
       THEN CHOOSE i \in DOMAIN blk : blk[i].block_hash = hash
       ELSE None

\* the blocks from a block back along prev_block_id
RECURSIVE PathFrom(_, _)
PathFrom(blk, id) ==
    IF id = None THEN {} ELSE {id} \cup PathFrom(blk, blk[id].prev_block_id)

\* the block at a height among those from a block back along prev_block_id
AncestorAt(blk, id, height) ==
    CHOOSE a \in PathFrom(blk, id) : blk[a].block_height = height

\* the ancestor-search reference of a block at a height on a parent: none
\* below height 2, else the ancestor at half the height
SearchId(blk, prev_id, height) ==
    IF height < 2 THEN None ELSE AncestorAt(blk, prev_id, height \div 2)

\* (a variant of the reorganization that leaves the abandoned path as it was)
ReorganizeAdoptedOnly(st, new_tip) ==
    LET adopted == PathFrom(st.block, new_tip)
    IN  [st EXCEPT !.tip = new_tip,
                   !.cc = {IF r.block_id \in adopted
                              THEN [r EXCEPT !.in_longest = 1] ELSE r : r \in @}]
\* the reorganization from the tip to a new tip: from both, back to their
\* common ancestor, in_longest is turned off along the abandoned path and on
\* along the adopted path
Reorganize(st, new_tip) ==
    LET old == PathFrom(st.block, st.tip)
        new == PathFrom(st.block, new_tip)
        abandoned == old \ new
        adopted == new \ old
    IN  [st EXCEPT !.tip = new_tip,
                   !.cc = {IF r.block_id \in abandoned THEN [r EXCEPT !.in_longest = 0]
                           ELSE IF r.block_id \in adopted THEN [r EXCEPT !.in_longest = 1]
                           ELSE r : r \in @}]

\* a block whose height is known becomes a candidate of the chain and its tip
\* if it is higher than the tip; the blocks that name it as their parent get
\* their height and their ancestor-search reference and are linked in turn
RECURSIVE Link(_, _)
RECURSIVE LinkChildren(_, _, _)
Link(st, id) ==
    LET height == st.block[id].block_height
        st1 == [st EXCEPT !.cc = @ \cup {[block_id |-> id, in_longest |-> 0,
                                          block_height |-> height]}]
        st2 == IF st1.tip = None \/ height > st1.block[st1.tip].block_height
                  THEN Reorganize(st1, id) ELSE st1
    IN  LinkChildren(st2, id, {c \in DOMAIN st.block : st.block[c].prev_block_id = id})
LinkChildren(st, id, children) ==
    IF children = {} THEN st
    ELSE LET c == CHOOSE x \in children : \A y \in children : x <= y
             height == st.block[id].block_height + 1
             st1 == [st EXCEPT !.block[c].block_height = height,
                               !.block[c].search_block_id =
                                   SearchId(st.block, id, height)]
         IN  LinkChildren(Link(st1, c), id, children \ {c})

\* (a variant of the adoption that leaves the orphans in their table)
AdoptOrphansKept(st, id) ==
    LET keyed == {o.block_id : o \in {o \in st.orphan :
                                         o.block_hashPrev = st.block[id].block_hash}}
    IN  [st EXCEPT !.block = [i \in DOMAIN @ |->
                                 IF i \in keyed THEN [@[i] EXCEPT !.prev_block_id = id]
                                 ELSE @[i]]]
\* the orphans keyed on the hash of a block that has been inserted get it as
\* their parent and leave the orphan table
AdoptOrphans(st, id) ==
    LET keyed == {o.block_id : o \in {o \in st.orphan :
                                         o.block_hashPrev = st.block[id].block_hash}}
    IN  [st EXCEPT !.orphan = {o \in @ : o.block_id \notin keyed},
                   !.block = [i \in DOMAIN @ |->
                                 IF i \in keyed THEN [@[i] EXCEPT !.prev_block_id = id]
                                 ELSE @[i]]]

\* the insertion of the block of hash h: its row, with the parent and the
\* height if the parent is stored and has one; a row of orphan_block if the
\* parent is not stored; then the adoption of its orphans and, if its height
\* is known, its candidacy and theirs
InsertBlock(st, h) ==
    LET id == Len(st.block) + 1
        prev_id == IdOf(st.block, hashPrev[h])
        height == IF hashPrev[h] = 0 THEN 0
                  ELSE IF prev_id # None /\ st.block[prev_id].block_height # None
                          THEN st.block[prev_id].block_height + 1
                  ELSE None
        inserted == [block_hash |-> h, prev_block_id |-> prev_id,
                     block_height |-> height,
                     search_block_id |-> IF height = None THEN None
                                         ELSE SearchId(st.block, prev_id, height)]
        st1 == [st EXCEPT !.block = Append(@, inserted),
                          !.orphan = IF hashPrev[h] # 0 /\ prev_id = None
                                        THEN @ \cup {[block_id |-> id,
                                                      block_hashPrev |-> hashPrev[h]]}
                                        ELSE @]
        st2 == AdoptOrphans(st1, id)
    IN  IF height = None THEN st2 ELSE Link(st2, id)

ChainStart ==
    /\ hashPrev \in BlockTrees
    /\ bad_merkle \in {0, 2}
    /\ block_table = <<>>
    /\ orphan_block = {}
    /\ chain_candidate = {}
    /\ chain_last_block_id = None
    /\ tip_before = None
    /\ import_raised = NoException

ChainIdle ==
    /\ hashPrev = <<>>
    /\ bad_merkle = 0
    /\ block_table = <<>>
    /\ orphan_block = {}
    /\ chain_candidate = {}
    /\ chain_last_block_id = None
    /\ tip_before = None
    /\ import_raised = NoException

\* a block that is not stored is offered, and its Merkle root is the declared
\* one: it is inserted
ImportBlock(h) ==
    /\ IdOf(block_table, h) = None
    /\ MerkleRoot(TxHashes(h)) = DeclaredRoot(h)
    /\ LET st == InsertBlock(Tables, h)
       IN  /\ block_table' = st.block
           /\ orphan_block' = st.orphan
           /\ chain_candidate' = st.cc
           /\ chain_last_block_id' = st.tip
    /\ tip_before' = chain_last_block_id
    /\ import_raised' = NoException
    /\ UNCHANGED <<hashPrev, bad_merkle>>
    /\ UNCHANGED notChainVars

\* a block that is not stored is offered, and its Merkle root is not the
\* declared one: MerkleRootMismatch is raised and the caller drops the block
ImportRejected(h) ==
    /\ IdOf(block_table, h) = None
    /\ MerkleRoot(TxHashes(h)) # DeclaredRoot(h)
    /\ import_raised' = MerkleRootMismatch(h, TxHashes(h))
    /\ UNCHANGED <<hashPrev, bad_merkle, block_table, orphan_block, chain_candidate,
                   chain_last_block_id, tip_before>>
    /\ UNCHANGED notChainVars

(***************************************************************************)
(* The rewriting of statements: the transform _set_sql_flavour builds      *)
(* (placeholders, BIT types, the approximate txout value) and, in ddl(),   *)
(* _sql_fallback_to_lob.  A statement is the sequence of its pieces: text  *)
(* that no rewrite touches, a ?, a %, a hexadecimal literal X'..', a type  *)
(* with its width, the column pair of the approximate txout value.         *)
(***************************************************************************)

\* a piece of a statement: its kind, its number (a width, the number of a
\* named parameter) and its text
Tok(k, n, s) == [k |-> k, n |-> n, s |-> s]
Text(s) == Tok("text", 0, s)
Qmark == Tok("?", 0, "")
Percent == Tok("%", 0, "")
HexLiteral(s) == Tok("X'..'", 0, s)
TypeOf(name, n) == Tok(name, n, "")
TxoutApprox == Tok("txout_value txout_approx_value", 0, "")

\* the n-th of the ? of a statement that stands at i
Ordinal(stmt, i) == Cardinality({j \in 1..i : stmt[j] = Qmark})

\* _qmark_to_format: stmt.replace('%', '%%').replace("?", "%s")
qmark_to_format(stmt) ==
    [i \in DOMAIN stmt |->
        IF stmt[i] = Percent THEN Tok("%%", 0, "")
        ELSE IF stmt[i] = Qmark THEN Tok("%s", 0, "")
        ELSE stmt[i]]

\* (a variant whose counter goes from 0)
qmark_to_namedFromZero(stmt) ==
    [i \in DOMAIN stmt |->
        IF stmt[i] = Qmark THEN Tok(":p", Ordinal(stmt, i) - 1, "") ELSE stmt[i]]
\* _qmark_to_named: re.sub("\\?", newname, stmt), newname counting from 1 in
\* every call
qmark_to_named(stmt) ==
    [i \in DOMAIN stmt |->
        IF stmt[i] = Qmark THEN Tok(":p", Ordinal(stmt, i), "") ELSE stmt[i]]

\* _sql_binary_as_hex: BIT(n) is CHAR(n / 4), BIT VARYING(n) is
\* VARCHAR(n / 4), and X' is '
sql_binary_as_hex(stmt) ==
    [i \in DOMAIN stmt |->
        CASE stmt[i].k = "BIT" -> TypeOf("CHAR", stmt[i].n \div 4)
          [] stmt[i].k = "BIT VARYING" -> TypeOf("VARCHAR", stmt[i].n \div 4)
          [] stmt[i].k = "X'..'" -> Tok("'..'", 0, stmt[i].s)
          [] OTHER -> stmt[i]]

\* _sql_binary_as_binary: BIT(n) is BINARY(n / 8), BIT VARYING(n) is
\* VARBINARY(n / 8)
sql_binary_as_binary(stmt) ==
    [i \in DOMAIN stmt |->
        CASE stmt[i].k = "BIT" -> TypeOf("BINARY", stmt[i].n \div 8)
          [] stmt[i].k = "BIT VARYING" -> TypeOf("VARBINARY", stmt[i].n \div 8)
          [] OTHER -> stmt[i]]

\* _sql_binary_as_bytea: the BIT types are BYTEA, and X'..' is the literal of
\* the octal escapes of its bytes, cast to bytea
sql_binary_as_bytea(stmt) ==
    [i \in DOMAIN stmt |->
        CASE stmt[i].k \in {"BIT", "BIT VARYING"} -> Tok("BYTEA", 0, "")
          [] stmt[i].k = "X'..'" -> Tok("'\\ooo'::bytea", 0, stmt[i].s)
          [] OTHER -> stmt[i]]

\* _approximate_txout
approximate_txout(stmt) ==
    [i \in DOMAIN stmt |->
        IF stmt[i] = TxoutApprox
           THEN Tok("CAST(txout_value AS DOUBLE PRECISION) txout_approx_value", 0, "")
           ELSE stmt[i]]

\* one rewrite of the transform, by its name
Rewrite(name, stmt) ==
    CASE name = "_qmark_to_format" -> qmark_to_format(stmt)
      [] name = "_qmark_to_named" -> qmark_to_named(stmt)
      [] name = "_sql_binary_as_hex" -> sql_binary_as_hex(stmt)
      [] name = "_sql_binary_as_binary" -> sql_binary_as_binary(stmt)
      [] name = "_sql_binary_as_bytea" -> sql_binary_as_bytea(stmt)
      [] name = "_approximate_txout" -> approximate_txout(stmt)
      [] OTHER -> stmt

\* store.sql_transform(stmt): the rewrites of the transform, first to last
RECURSIVE sql_transform(_, _)
sql_transform(transform, stmt) ==
    IF transform = <<>> THEN stmt
    ELSE sql_transform(Tail(transform), Rewrite(Head(transform), stmt))

\* int(store.config['max_varchar']) does not raise
IsWidth(val) == \E n \in 0 .. MaxWidth : str(n) = val

\* (a variant without the test of NO_CLOB)
sql_fallback_to_lobAnyClob(cfg, stmt) ==
    IF ~IsWidth(cfg["max_varchar"]) \/ cfg["clob_type"] \in {Unset, "NoneType"}
       THEN stmt
       ELSE [i \in DOMAIN stmt |->
                IF stmt[i].k = "VARCHAR" /\ stmt[i].n > int(cfg["max_varchar"])
                   THEN Tok(cfg["clob_type"], 0, "")
                   ELSE stmt[i]]
\* _sql_fallback_to_lob: a VARCHAR wider than max_varchar is the clob_type
sql_fallback_to_lob(cfg, stmt) ==
    IF ~IsWidth(cfg["max_varchar"]) \/ cfg["clob_type"] \in {Unset, "NoneType"}
       THEN stmt
       ELSE [i \in DOMAIN stmt |->
                IF /\ stmt[i].k = "VARCHAR"
                   /\ stmt[i].n > int(cfg["max_varchar"])
                   /\ cfg["clob_type"] # NO_CLOB
                   THEN Tok(cfg["clob_type"], 0, "")
                   ELSE stmt[i]]

\* stmt.lstrip().startswith("CREATE TABLE ")
IsCreateTable(stmt) == stmt # <<>> /\ stmt[1] = Text("CREATE TABLE abe_test_1 (")

\* (a variant of ddl that downgrades before the transform)
DdlStatementLobFirst(cfg, fl, stmt) ==
    LET full == IF IsCreateTable(stmt) /\ cfg["create_table_epilogue"] # ""
                   THEN Append(stmt, Text(cfg["create_table_epilogue"]))
                   ELSE stmt
    IN  sql_transform(fl.sql_transform, sql_fallback_to_lob(cfg, full))
\* ddl: the statement it executes: the epilogue after CREATE TABLE, the
\* transform, then _sql_fallback_to_lob
DdlStatement(cfg, fl, stmt) ==
    LET full == IF IsCreateTable(stmt) /\ cfg["create_table_epilogue"] # ""
                   THEN Append(stmt, Text(cfg["create_table_epilogue"]))
                   ELSE stmt
    IN  sql_fallback_to_lob(cfg, sql_transform(fl.sql_transform, full))

\* the statements given to ddl(): a table with a column of each type, the
\* widths about the max_varchar of the configurations
DdlStatements ==
    {<<Text("CREATE TABLE abe_test_1 ("), TypeOf("BIT", 256), Text(","),
       TypeOf("BIT VARYING", n), Text(","), TypeOf("VARCHAR", w), Text(","),
       TypeOf("NUMERIC", 10), Text(")")>> : n \in {11, 12, 19, 20}, w \in {2, 3, 5}}
    \cup {<<Text("DROP TABLE abe_test_1")>>}

\* the statements given to sql(): every sequence of one to three of ?, %
\* and a hexadecimal literal, and the view of the approximate txout value
SqlPieces == {Qmark, Percent, HexLiteral("ab")}
SqlStatements ==
    {<<a>> : a \in SqlPieces}
    \cup {<<a, b>> : a \in SqlPieces, b \in SqlPieces}
    \cup {<<a, b, c>> : a \in SqlPieces, b \in SqlPieces, c \in SqlPieces}
    \cup {<<Text("SELECT"), TxoutApprox, Text("WHERE txout_id ="), Qmark>>}

\* the configurations of the rewriting: before max_varchar or clob_type is
\* configured, and with them
RewriteConfigs ==
    {[EmptyConfig EXCEPT !["create_table_epilogue"] = e,
                         !["max_varchar"] = m,
                         !["clob_type"] = c,
                         !["binary_type"] = b,
                         !["int_type"] = n] :
        e \in {"", " ENGINE=InnoDB"},
        m \in {Unset, str(2), str(4)},
        c \in {Unset, "CLOB", NO_CLOB},
        b \in {Unset, "binary", "hex", "pg-bytea"},
        n \in {Unset, "str"}}

RewriteStart ==
    /\ module \in Modules
    /\ args = NoArgs
    /\ config \in RewriteConfigs
    /\ flavour = set_sql_flavour(config, module).flavour
    /\ rw_stmt \in DdlStatements \cup SqlStatements
    /\ rw_out = <<>>
    /\ rw_pc = "call"

RewriteIdle ==
    /\ rw_stmt = <<>>
    /\ rw_out = <<>>
    /\ rw_pc = "idle"

\* sql(stmt): the statement it executes
RewriteSql ==
    /\ rw_pc = "call"
    /\ rw_out' = sql_transform(flavour.sql_transform, rw_stmt)
    /\ rw_pc' = "sql"
    /\ UNCHANGED <<rw_stmt, module, args, config, flavour>>
    /\ UNCHANGED notRewriteVars

\* ddl(stmt): the statement it executes
RewriteDdl ==
    /\ rw_pc = "call"
    /\ rw_out' = DdlStatement(config, flavour, rw_stmt)
    /\ rw_pc' = "ddl"
    /\ UNCHANGED <<rw_stmt, module, args, config, flavour>>
    /\ UNCHANGED notRewriteVars

(***************************************************************************)
(* The statement cache.  sql() rewrites a statement with the installed     *)
(* sql_transform the first time it sees its text and keeps the result in   *)
(* _sql_cache; _set_sql_flavour installs a new transform, new functions    *)
(* and an empty cache, or raises before it has assigned anything.          *)
(***************************************************************************)

\* the statements sql() is called with
CachedStatements ==
    {<<Qmark>>,
     <<HexLiteral("ab"), Qmark>>,
     <<Text("SELECT"), TxoutApprox, Text("WHERE txout_id ="), Qmark>>}

\* the values the callers of _set_sql_flavour put in the configuration before
\* they call it: candidates of the lists, and a value given by the user
Unsupported == "bogus"
FlavourValues(param) ==
    CASE param = "binary_type" -> {"hex", "pg-bytea", Unsupported}
      [] param = "int_type" -> {"int", "str", Unsupported}
      [] param = "sequence_type" -> {"update", "mysql", Unsupported}
      [] OTHER -> {"native", "emulated"}

\* {}
EmptyCache == [s \in {} |-> <<>>]

\* the fields of the store _set_sql_flavour assigns
Installed == [flavour |-> flavour, _sql_cache |-> _sql_cache]

\* _set_sql_flavour on the store: every "raise Exception("Unsupported ...")"
\* stands before the first "store.... =", and "store._sql_cache = {}" is among
\* the assignments
\* (variants: the functions of binary_type assigned before int_type is looked
\* at; the cache not emptied)
InstallFlavourBinaryFirst(st, cfg, mod) ==
    LET r == set_sql_flavour(cfg, mod)
        bin == BinaryFunctions(cfg["binary_type"])
    IN  IF r.raised
           THEN IF bin.supported
                   THEN [st EXCEPT !.flavour.binin = bin.binin,
                                   !.flavour.binout = bin.binout]
                   ELSE st
           ELSE [flavour |-> r.flavour, _sql_cache |-> EmptyCache]
InstallFlavourKeepsCache(st, cfg, mod) ==
    LET r == set_sql_flavour(cfg, mod)
    IN  IF r.raised THEN st ELSE [st EXCEPT !.flavour = r.flavour]
InstallFlavour(st, cfg, mod) ==
    LET r == set_sql_flavour(cfg, mod)
    IN  IF r.raised THEN st ELSE [flavour |-> r.flavour, _sql_cache |-> EmptyCache]

\* sql: "cached = store._sql_cache.get(stmt); if cached is None: cached =
\* store.sql_transform(stmt); store._sql_cache[stmt] = cached"
CacheLookup(cache, transform, stmt) ==
    IF stmt \in DOMAIN cache
       THEN [cached |-> cache[stmt], fresh |-> FALSE, cache |-> cache]
       ELSE LET cached == sql_transform(transform, stmt)
            IN  [cached |-> cached, fresh |-> TRUE,
                 cache |-> [s \in DOMAIN cache \cup {stmt} |->
                               IF s = stmt THEN cached ELSE cache[s]]]

StatementStart ==
    /\ module \in {m \in Modules : m.paramstyle \in {"qmark", "named"}}
    /\ args = NoArgs
    /\ config = EmptyConfig
    /\ flavour = set_sql_flavour(config, module).flavour
    /\ _sql_cache = EmptyCache
    /\ transformed = {}
    /\ st_last = [op |-> "_set_sql_flavour", stmt |-> <<>>, sent |-> <<>>,
                  raised |-> FALSE, again |-> FALSE]

StatementIdle ==
    /\ _sql_cache = EmptyCache
    /\ transformed = {}
    /\ st_last = [op |-> "idle", stmt |-> <<>>, sent |-> <<>>, raised |-> FALSE,
                  again |-> FALSE]

\* a caller sets a parameter of the configuration and calls _set_sql_flavour
StatementSetSqlFlavour ==
    \E param \in FlavourParams :
        \E val \in FlavourValues(param) :
            LET cfg == [config EXCEPT ![param] = val]
                st == InstallFlavour(Installed, cfg, module)
                exc == set_sql_flavour(cfg, module).raised
            IN  /\ config' = cfg
                /\ flavour' = st.flavour
                /\ _sql_cache' = st._sql_cache
                /\ transformed' = IF exc THEN transformed ELSE {}
                /\ st_last' = [op |-> "_set_sql_flavour", stmt |-> <<>>, sent |-> <<>>,
                               raised |-> exc, again |-> FALSE]
                /\ UNCHANGED <<module, args>>
                /\ UNCHANGED notStatementVars

\* sql(stmt): the statement it hands to _execute
StatementSql ==
    \E stmt \in CachedStatements :
        LET r == CacheLookup(_sql_cache, flavour.sql_transform, stmt)
        IN  /\ _sql_cache' = r.cache
            /\ transformed' = IF r.fresh THEN transformed \cup {stmt} ELSE transformed
            /\ st_last' = [op |-> "sql", stmt |-> stmt, sent |-> r.cached,
                           raised |-> FALSE,
                           again |-> r.fresh /\ stmt \in transformed]
            /\ UNCHANGED <<module, args, config, flavour>>
            /\ UNCHANGED notStatementVars

(***************************************************************************)
(* The counter table: _create_sequence_update and _new_id_update as        *)
(* statements of the store's transaction.  ct_work is the table as the     *)
(* store's connection sees it, ct_db the table as committed: commit makes  *)
(* ct_db the work, rollback makes ct_work the committed table.             *)
(***************************************************************************)

\* the keys of the counters, and the largest nextid of the model
Keys == {"block", "tx"}
MaxNextid == 3

\* abe_sequences: missing, or empty
NoTable == [table |-> FALSE, rows |-> [k \in Keys |-> None]]
EmptyTable == [table |-> TRUE, rows |-> [k \in Keys |-> None]]

\* INSERT INTO abe_sequences (sequence_key, nextid) VALUES (key, ret) fails
\* without the table, on a row of the same key, and when the backend fails
InsertFails(t, key, fails) == ~t.table \/ t.rows[key] # None \/ fails

\* CREATE TABLE abe_sequences fails on a table of that name, and when the
\* backend fails
DdlFails(t, fails) == t.table \/ fails

\* _create_sequence_update(key) on the work of the store's transaction, ret
\* being _get_sequence_initial_value(key) and f1, f2, f3 whether the backend
\* fails the first INSERT, the CREATE TABLE, the second INSERT: the committed
\* table, the work, the outcome and the statements issued
\* (a variant whose inner handler raises the error it caught)
CreateCounterRaisesLast(work, key, ret, f1, f2, f3) ==
    LET added == [work EXCEPT !.rows[key] = ret]
        made == [EmptyTable EXCEPT !.rows = work.rows]
    IN  IF ~InsertFails(work, key, f1)
           THEN [db |-> work, work |-> added, result |-> "returned", exc |-> "",
                 steps |-> <<"commit", "INSERT">>]
        ELSE IF DdlFails(work, f2)
           THEN [db |-> work, work |-> work, result |-> "raised", exc |-> "CREATE TABLE",
                 steps |-> <<"commit", "INSERT", "rollback", "CREATE TABLE", "rollback">>]
        ELSE IF InsertFails(made, key, f3)
           THEN [db |-> made, work |-> made, result |-> "raised", exc |-> "second INSERT",
                 steps |-> <<"commit", "INSERT", "rollback", "CREATE TABLE", "INSERT">>]
        ELSE [db |-> made, work |-> [made EXCEPT !.rows[key] = ret],
              result |-> "returned", exc |-> "",
              steps |-> <<"commit", "INSERT", "rollback", "CREATE TABLE", "INSERT">>]
CreateCounter(work, key, ret, f1, f2, f3) ==
    LET added == [work EXCEPT !.rows[key] = ret]
        made == [EmptyTable EXCEPT !.rows = work.rows]
    IN  IF ~InsertFails(work, key, f1)
           THEN [db |-> work, work |-> added, result |-> "returned", exc |-> "",
                 steps |-> <<"commit", "INSERT">>]
        ELSE IF DdlFails(work, f2)
           THEN [db |-> work, work |-> work, result |-> "raised", exc |-> "INSERT",
                 steps |-> <<"commit", "INSERT", "rollback", "CREATE TABLE", "rollback">>]
        ELSE IF InsertFails(made, key, f3)
           THEN [db |-> made, work |-> made, result |-> "raised", exc |-> "second INSERT",
                 steps |-> <<"commit", "INSERT", "rollback", "CREATE TABLE", "INSERT">>]
        ELSE [db |-> made, work |-> [made EXCEPT !.rows[key] = ret],
              result |-> "returned", exc |-> "",
              steps |-> <<"commit", "INSERT", "rollback", "CREATE TABLE", "INSERT">>]

\* _new_id_update(key) by the only process using the row: "if row is None:
\* raise Exception("Sequence %s does not exist")"; the SELECT itself raises
\* where the table is missing
AllocateCounter(work, key) ==
    IF ~work.table
       THEN [work |-> work, result |-> "raised", exc |-> "SELECT", steps |-> <<"SELECT">>]
    ELSE IF work.rows[key] = None
       THEN [work |-> work, result |-> "raised", exc |-> "Sequence does not exist",
             steps |-> <<"SELECT">>]
    ELSE [work |-> [work EXCEPT !.rows[key] = UpdateSet(work.rows[key])],
          result |-> "returned", exc |-> "", steps |-> <<"SELECT", "UPDATE">>]

CounterLast(op, key, r) ==
    [op |-> op, key |-> key, result |-> r.result, exc |-> r.exc, steps |-> r.steps]

CounterStart ==
    /\ ct_db \in {NoTable, EmptyTable}
    /\ ct_work = ct_db
    /\ ct_last = [op |-> "init", key |-> "", result |-> "returned", exc |-> "",
                  steps |-> <<>>]

CounterIdle ==
    /\ ct_db = NoTable
    /\ ct_work = NoTable
    /\ ct_last = [op |-> "idle", key |-> "", result |-> "returned", exc |-> "",
                  steps |-> <<>>]

\* create_sequence(key) of sequence_type 'update'
CounterCreate ==
    \E key \in Keys, largest \in {None, 1}, f1, f2, f3 \in BOOLEAN :
        LET r == CreateCounter(ct_work, key, InitialValue(largest), f1, f2, f3)
        IN  /\ f2 => f1
            /\ f3 => f1 /\ ~f2
            /\ ct_db' = r.db
            /\ ct_work' = r.work
            /\ ct_last' = CounterLast("create", key, r)
            /\ UNCHANGED notCounterVars

\* new_id(key) of sequence_type 'update'
CounterNewId ==
    \E key \in Keys :
        LET r == AllocateCounter(ct_work, key)
        IN  /\ ct_work.rows[key] # None => ct_work.rows[key] < MaxNextid
            /\ ct_work' = r.work
            /\ ct_last' = CounterLast("new_id", key, r)
            /\ UNCHANGED ct_db
            /\ UNCHANGED notCounterVars

\* the caller's commit() or rollback() between two calls
CounterCommit ==
    /\ ct_db' = ct_work
    /\ ct_last' = [op |-> "commit", key |-> "", result |-> "returned", exc |-> "",
                   steps |-> <<"commit">>]
    /\ UNCHANGED ct_work
    /\ UNCHANGED notCounterVars

CounterRollback ==
    /\ ct_work' = ct_db
    /\ ct_last' = [op |-> "rollback", key |-> "", result |-> "returned", exc |-> "",
                   steps |-> <<"rollback">>]
    /\ UNCHANGED ct_db
    /\ UNCHANGED notCounterVars

ConnNext ==
    \/ EnableAutoReconnect
    \/ \E call \in SqlCalls : Sql(call[1], call[2])
    \/ \E stmt \in Stmts : Ddl(stmt)
    \/ InitializeSchema
    \/ Commit
    \/ Rollback
    \/ Reconnect
    \/ Close

SeqNext ==
    \E p \in Procs :
        \/ NewIdCall(p)
        \/ NewIdSelect(p)
        \/ NewIdUpdate(p)
        \/ SeqCommit(p)
        \/ SeqRollback(p)

SeqInit ==
    /\ SeqStart
    /\ DialectIdle
    /\ CreateIdle
    /\ ConnIdle
    /\ BinIdle
    /\ WidthIdle
    /\ NegIdle
    /\ ProbeIdle
    /\ StartIdle
    /\ LimitIdle
    /\ LockIdle
    /\ CacheIdle
    /\ ChainIdle
    /\ RewriteIdle
    /\ StatementIdle
    /\ CounterIdle

SpecSeq == SeqInit /\ [][SeqNext]_vars

\* Each process runs its own code to the end: a call in progress takes its next
\* step, and a caller that is between calls ends the transaction it has open.
SeqFairness ==
    \A p \in Procs :
        /\ WF_vars(NewIdSelect(p))
        /\ WF_vars(NewIdUpdate(p))
        /\ WF_vars(SeqCommit(p) \/ SeqRollback(p))

SpecSeqFair == SeqInit /\ [][SeqNext]_vars /\ SeqFairness

CreateNext ==
    \/ \E id \in 1 .. MaxPk : InsertRow(id)
    \/ CreateSequenceUpdate
    \/ CreateSequenceNative
    \/ CreateSequenceDb2
    \/ CreateSequenceMysql
    \/ NewIdUpdateAlone
    \/ NewIdNative
    \/ NewIdMysql
    \/ DropSequence

SeqIdle ==
    /\ nextid = 1
    /\ writer = None
    /\ pendingid = None
    /\ pc = [p \in Procs |-> "idle"]
    /\ row = [p \in Procs |-> None]
    /\ in_txn = [p \in Procs |-> FALSE]
    /\ calls = 0
    /\ returned = <<>>
    /\ effective = <<>>
    /\ nopen = 0
    /\ contention = 0
    /\ beaten = [p \in Procs |-> FALSE]

CreateInit ==
    /\ CreateStart
    /\ DialectIdle
    /\ SeqIdle
    /\ ConnIdle
    /\ BinIdle
    /\ WidthIdle
    /\ NegIdle
    /\ ProbeIdle
    /\ StartIdle
    /\ LimitIdle
    /\ LockIdle
    /\ CacheIdle
    /\ ChainIdle
    /\ RewriteIdle
    /\ StatementIdle
    /\ CounterIdle

ConnInit ==
    /\ ConnStart
    /\ DialectIdle
    /\ SeqIdle
    /\ CreateIdle
    /\ BinIdle
    /\ WidthIdle
    /\ NegIdle
    /\ ProbeIdle
    /\ StartIdle
    /\ LimitIdle
    /\ LockIdle
    /\ CacheIdle
    /\ ChainIdle
    /\ RewriteIdle
    /\ StatementIdle
    /\ CounterIdle

SpecConn == ConnInit /\ [][ConnNext]_vars

SpecCreate == CreateInit /\ [][CreateNext]_vars

BinNext ==
    \/ BinEncode
    \/ BinDecode
    \/ BinDecodeHex
    \/ BinEncodeHex

BinInit ==
    /\ BinStart
    /\ SeqIdle
    /\ CreateIdle
    /\ ConnIdle
    /\ WidthIdle
    /\ NegIdle
    /\ ProbeIdle
    /\ StartIdle
    /\ LimitIdle
    /\ LockIdle
    /\ CacheIdle
    /\ ChainIdle
    /\ RewriteIdle
    /\ StatementIdle
    /\ CounterIdle

SpecBinary == BinInit /\ [][BinNext]_vars

WidthNext ==
    \/ MaxVarcharStart
    \/ MaxVarcharProbe

WidthInit ==
    /\ WidthStart
    /\ SeqIdle
    /\ CreateIdle
    /\ ConnIdle
    /\ BinIdle
    /\ NegIdle
    /\ ProbeIdle
    /\ StartIdle
    /\ LimitIdle
    /\ LockIdle
    /\ CacheIdle
    /\ ChainIdle
    /\ RewriteIdle
    /\ StatementIdle
    /\ CounterIdle

SpecVarchar == WidthInit /\ [][WidthNext]_vars

\* configure_max_varchar, once called, runs its statements one after the other
SpecVarcharFair == WidthInit /\ [][WidthNext]_vars /\ WF_vars(WidthNext)

NegNext ==
    \/ Configure
    \/ ConfigureDdlImplicitCommit
    \/ ConfigureCreateTableEpilogue
    \/ ConfigureMaxVarchar
    \/ ConfigureClobType
    \/ ConfigureBinaryType
    \/ ConfigureIntType
    \/ ConfigureSequenceType
    \/ ConfigureLimitStyle

NegInit ==
    /\ NegStart
    /\ SeqIdle
    /\ CreateIdle
    /\ ConnIdle
    /\ BinIdle
    /\ WidthIdle
    /\ ProbeIdle
    /\ StartIdle
    /\ LimitIdle
    /\ LockIdle
    /\ CacheIdle
    /\ ChainIdle
    /\ RewriteIdle
    /\ StatementIdle
    /\ CounterIdle

SpecNegotiate == NegInit /\ [][NegNext]_vars

ProbeNext ==
    \/ ProbeBeforeTry
    \/ ProbeTry
    \/ ProbeFinally
    \/ ProbeDdlNextCandidate

ProbeInit ==
    /\ ProbeStart
    /\ SeqIdle
    /\ CreateIdle
    /\ ConnIdle
    /\ BinIdle
    /\ WidthIdle
    /\ NegIdle
    /\ StartIdle
    /\ LimitIdle
    /\ LockIdle
    /\ CacheIdle
    /\ ChainIdle
    /\ RewriteIdle
    /\ StatementIdle
    /\ CounterIdle

SpecProbe == ProbeInit /\ [][ProbeNext]_vars

StartNext ==
    \/ StartReadConfig
    \/ StartDispatch
    \/ StartConfigure
    \/ StartDdl
    \/ StartCreateSequences
    \/ StartInsertRows
    \/ StartFirstbits
    \/ StartSaveConfig
    \/ StartCommit
    \/ StartSetSqlFlavour
    \/ StartAgain

StartInit ==
    /\ StartStart
    /\ SeqIdle
    /\ CreateIdle
    /\ ConnIdle
    /\ BinIdle
    /\ WidthIdle
    /\ NegIdle
    /\ ProbeIdle
    /\ LimitIdle
    /\ LockIdle
    /\ CacheIdle
    /\ ChainIdle
    /\ RewriteIdle
    /\ StatementIdle
    /\ CounterIdle

SpecStartup == StartInit /\ [][StartNext]_vars

LimitNext ==
    \/ LimitSelectall
    \/ LimitNextCall

LimitInit ==
    /\ LimitStart
    /\ DialectIdle
    /\ SeqIdle
    /\ CreateIdle
    /\ ConnIdle
    /\ BinIdle
    /\ WidthIdle
    /\ NegIdle
    /\ ProbeIdle
    /\ StartIdle
    /\ LockIdle
    /\ CacheIdle
    /\ ChainIdle
    /\ RewriteIdle
    /\ StatementIdle
    /\ CounterIdle

SpecLimit == LimitInit /\ [][LimitNext]_vars

LockNext ==
    \/ \E p \in Procs : GetLockConnect(p)
    \/ \E p \in Procs : GetLockUpdate(p)
    \/ \E p \in Procs : GetLockUpdateTimeout(p)
    \/ \E p \in Procs : GetLockInsert(p)
    \/ \E p \in Procs : GetLockRollback(p)
    \/ \E p \in Procs : ReleaseLock(p)

LockInit ==
    /\ LockStart
    /\ DialectIdle
    /\ SeqIdle
    /\ CreateIdle
    /\ ConnIdle
    /\ BinIdle
    /\ WidthIdle
    /\ NegIdle
    /\ ProbeIdle
    /\ StartIdle
    /\ LimitIdle
    /\ CacheIdle
    /\ ChainIdle
    /\ RewriteIdle
    /\ StatementIdle
    /\ CounterIdle

SpecLock == LockInit /\ [][LockNext]_vars

CacheNext ==
    \/ \E block_id \in DOMAIN block_rows : LoadBlock(block_id)
    \/ \E block_id \in DOMAIN block_rows :
          \E block \in Updates(block_id) :
             CacheBlock(block_id, block.height, block.prev_id, block.search_id)

CacheInit ==
    /\ CacheStart
    /\ DialectIdle
    /\ SeqIdle
    /\ CreateIdle
    /\ ConnIdle
    /\ BinIdle
    /\ WidthIdle
    /\ NegIdle
    /\ ProbeIdle
    /\ StartIdle
    /\ LimitIdle
    /\ LockIdle
    /\ ChainIdle
    /\ RewriteIdle
    /\ StatementIdle
    /\ CounterIdle

SpecCache == CacheInit /\ [][CacheNext]_vars

ChainNext ==
    \/ \E h \in DOMAIN hashPrev : ImportBlock(h)
    \/ \E h \in DOMAIN hashPrev : ImportRejected(h)

ChainInit ==
    /\ ChainStart
    /\ DialectIdle
    /\ SeqIdle
    /\ CreateIdle
    /\ ConnIdle
    /\ BinIdle
    /\ WidthIdle
    /\ NegIdle
    /\ ProbeIdle
    /\ StartIdle
    /\ LimitIdle
    /\ LockIdle
    /\ CacheIdle
    /\ RewriteIdle
    /\ StatementIdle
    /\ CounterIdle

SpecChain == ChainInit /\ [][ChainNext]_vars

RewriteNext ==
    \/ RewriteSql
    \/ RewriteDdl

RewriteInit ==
    /\ RewriteStart
    /\ SeqIdle
    /\ CreateIdle
    /\ ConnIdle
    /\ BinIdle
    /\ WidthIdle
    /\ NegIdle
    /\ ProbeIdle
    /\ StartIdle
    /\ LimitIdle
    /\ LockIdle
    /\ CacheIdle
    /\ ChainIdle
    /\ StatementIdle
    /\ CounterIdle

SpecRewrite == RewriteInit /\ [][RewriteNext]_vars

StatementNext ==
    \/ StatementSetSqlFlavour
    \/ StatementSql

StatementInit ==
    /\ StatementStart
    /\ SeqIdle
    /\ CreateIdle
    /\ ConnIdle
    /\ BinIdle
    /\ WidthIdle
    /\ NegIdle
    /\ ProbeIdle
    /\ StartIdle
    /\ LimitIdle
    /\ LockIdle
    /\ CacheIdle
    /\ ChainIdle
    /\ RewriteIdle
    /\ CounterIdle

SpecStatement == StatementInit /\ [][StatementNext]_vars

CounterNext ==
    \/ CounterCreate
    \/ CounterNewId
    \/ CounterCommit
    \/ CounterRollback

CounterInit ==
    /\ CounterStart
    /\ DialectIdle
    /\ SeqIdle
    /\ CreateIdle
    /\ ConnIdle
    /\ BinIdle
    /\ WidthIdle
    /\ NegIdle
    /\ ProbeIdle
    /\ StartIdle
    /\ LimitIdle
    /\ LockIdle
    /\ CacheIdle
    /\ ChainIdle
    /\ RewriteIdle
    /\ StatementIdle

SpecCounter == CounterInit /\ [][CounterNext]_vars

Values(log) == {log[i][2] : i \in DOMAIN log}
StrictlyIncreasing(s) == \A i, j \in DOMAIN s : i < j => s[i] < s[j]
InCall(p) == pc[p] \in {"select", "update"}

\* C1: under the counter-table strategy no two completed allocate(key) calls,
\* of any processes in any interleaving, return the same value for the key.
C1_NoTwoCallsSameValue ==
    \A i, j \in DOMAIN returned : i # j => returned[i][2] # returned[j][2]

\* C2: a value returned by allocate(key) is never returned again by a later
\* allocate(key), also when the caller that received it rolls back the
\* transaction of the allocation's UPDATE.
C2_NeverReturnedAgain ==
    [][Len(returned') > Len(returned)
          => returned'[Len(returned')][2] \notin Values(returned)]_vars

C4_LostRaceRetried ==
    /\ [](\A p \in Procs : pc[p] # "raised")
    /\ [][\A p \in Procs : (pc[p] = "update" /\ pc'[p] = "select") => beaten[p]]_vars
    /\ \A p \in Procs : InCall(p) ~> (pc[p] = "idle")

\* C4 witness: a race was lost, and every call that was started, the one that
\* lost it included, has returned its value.
C4_Witness ==
    /\ contention >= 1
    /\ calls = MaxCalls
    /\ Len(returned) = calls
    /\ \A p \in Procs : pc[p] = "idle"

\* C5: create(key) seeds the sequence from table key: the first value
\* allocated after it is M+1 when the table held rows with largest primary key
\* M, and 1 when it was empty, under every sequence_type.
C5_CreateSeedsFromTable ==
    first_id # None => first_id = (IF seed_max = 0 THEN 1 ELSE seed_max + 1)

\* C5 witness: a sequence created on a table with rows has issued its first id.
C5_Witness ==
    /\ seed_max # None
    /\ seed_max >= 2
    /\ first_id # None
    /\ cr_last.op = "new_id"

\* the last operation was a sql() whose first execute raised an error of a
\* class _execute catches, with no transaction open and auto_reconnect on
SqlRetryCase ==
    /\ last.op = "sql"
    /\ Caught(last.asked.a1)
    /\ ~last.pre.in_transaction
    /\ last.pre.auto_reconnect

SameStatement(e) == e.stmt = last.stmt /\ e.params = last.params

\* C6 as stated: in that case the manager reconnects exactly once and
\* re-executes the same statement with the same parameters exactly once, and
\* a failure of the second attempt is the error that propagates.
C6_ReexecutedExactlyOnce ==
    SqlRetryCase =>
        /\ last.reconnects = 1
        /\ Len(last.executed) = 2
        /\ \A i \in DOMAIN last.executed : SameStatement(last.executed[i])
        /\ last.result = "raised" => last.exc.attempt = 2

\* C6 amended: in that case the manager reconnects exactly once; when the
\* reconnect succeeds the same statement with the same parameters is executed
\* once more, on the new cursor, and the outcome of that second attempt is the
\* outcome of the call; when the reconnect itself fails the statement is not
\* executed again and the first error propagates.  Never more than two attempts.
C6_RetriedOnceAfterReconnect ==
    SqlRetryCase =>
        /\ last.reconnects = 1
        /\ Len(last.executed) <= 2
        /\ \A i \in DOMAIN last.executed : SameStatement(last.executed[i])
        /\ IF last.asked.open = "ok"
              THEN /\ Len(last.executed) = 2
                   /\ last.executed[1].cursor = last.pre.cursor
                   /\ last.executed[2].cursor = cursor
                   /\ cursor # last.pre.cursor
                   /\ conn = opened
                   /\ last.exc = IF last.asked.a2 = "ok" THEN NoError
                                 ELSE Error(last.asked.a2, "execute", 2)
              ELSE /\ Len(last.executed) = 1
                   /\ last.exc = Error(last.asked.a1, "execute", 1)

\* C6 witness: a retried statement whose second attempt failed too.
C6_Witness ==
    /\ SqlRetryCase
    /\ Len(last.executed) = 2
    /\ last.result = "raised"
    /\ last.exc.attempt = 2

\* C7: a statement that fails while a transaction is open or auto_reconnect is
\* off is executed once, its own error propagates, and the connection and the
\* cursor are the ones the call started with.
C7_FailurePropagatesUnretried ==
    (/\ last.op = "sql"
     /\ last.asked.a1 # "ok"
     /\ last.pre.in_transaction \/ ~last.pre.auto_reconnect)
        => /\ last.result = "raised"
           /\ last.exc = Error(last.asked.a1, "execute", 1)
           /\ Len(last.executed) = 1
           /\ last.reconnects = 0
           /\ conn = last.pre.conn
           /\ cursor = last.pre.cursor

\* C7 witness: an error _execute catches, raised inside an open transaction
\* of a store with auto_reconnect on.
C7_Witness ==
    /\ last.op = "sql"
    /\ Caught(last.asked.a1)
    /\ last.pre.in_transaction
    /\ last.pre.auto_reconnect
    /\ last.result = "raised"

\* C8 as stated: reconnect() never raises and always returns with a fresh
\* connection, a fresh cursor and in_transaction False.
C8_ReconnectNeverRaises ==
    last.op = "reconnect" =>
        /\ last.result = "returned"
        /\ conn # last.pre.conn
        /\ cursor = conn
        /\ ~in_transaction

\* C8 amended: reconnect() never raises what closing the old cursor or
\* connection raises; when the new connection and cursor can be opened it
\* returns with a fresh connection, a fresh cursor and in_transaction False;
\* when they cannot, the error of opening them propagates.
C8_ReconnectSwallowsCloseErrors ==
    last.op = "reconnect" =>
        /\ last.asked.open = "ok"
              => /\ last.result = "returned"
                 /\ conn = opened
                 /\ conn # last.pre.conn
                 /\ cursor = conn
                 /\ ~closed
                 /\ ~in_transaction
        /\ last.result = "raised"
              => /\ last.asked.open \in {"connect raises", "cursor raises"}
                 /\ last.exc.from \in {"connect", "cursor"}

\* C8 witness: a reconnect that returned although closing the old cursor and
\* the old connection both raised.
C8_Witness ==
    /\ last.op = "reconnect"
    /\ last.result = "returned"
    /\ last.asked.cclose = "Error"
    /\ last.asked.kclose = "Error"
    /\ last.pre.in_transaction

\* C9 as stated: ddl() commits right after the statement if and only if
\* ddl_implicit_commit is 'true'.
C9_CommitsIffImplicitCommit ==
    (last.op = "ddl" /\ last.asked.a1 = "ok")
        => (last.commits = 1 <=> ddl_implicit_commit = "true")

\* C9 amended: ddl() issues one explicit commit right after a statement that
\* succeeded if and only if ddl_implicit_commit is 'false' (the dialect does
\* not commit DDL by itself); when it is 'true' ddl() issues no commit and
\* sets in_transaction False; a statement that failed is never committed.
C9_CommitsIffNoImplicitCommit ==
    last.op = "ddl" =>
        /\ last.commits = 1 <=> (last.asked.a1 = "ok" /\ ddl_implicit_commit = "false")
        /\ last.commits \in {0, 1}
        /\ (last.asked.a1 = "ok" /\ ddl_implicit_commit = "true")
              => last.result = "returned" /\ ~in_transaction

\* C9 witness: a schema statement followed by its explicit commit.
C9_Witness ==
    /\ last.op = "ddl"
    /\ last.commits = 1
    /\ last.result = "returned"
    /\ last.pre.in_transaction
    /\ ~in_transaction

\* C10: after sql() returns in_transaction is True, also when it was False
\* before, and in_transaction goes from True to False only by commit(),
\* rollback(), ddl() (called directly or by the schema loop of initialize())
\* or reconnect().
C10_ImplicitTransaction ==
    /\ []((last.op = "sql" /\ last.result = "returned") => in_transaction)
    /\ [][(in_transaction /\ ~in_transaction')
             => last'.op \in {"commit", "rollback", "ddl", "initialize",
                              "reconnect"}]_vars

\* C10 witness: sql() returned in a store that had no transaction open.
C10_Witness ==
    /\ last.op = "sql"
    /\ last.result = "returned"
    /\ ~last.pre.in_transaction
    /\ in_transaction

\* C11: an error raised while ddl() executes a schema statement is raised to
\* the caller: the statement was executed once, on the cursor the call started
\* with, nothing was reconnected or retried, no commit was issued, and
\* in_transaction, the connection and the cursor are as before the call; an
\* error of the commit ddl() issues is raised in the same way.  In
\* initialize() the first schema statement that fails ends the loop: the
\* statements executed are the schema statements up to the failing one, in
\* order, and its error is the one raised.
C11_DdlErrorReraised ==
    /\ (last.op = "ddl" /\ last.asked.a1 # "ok")
          => /\ last.result = "raised"
             /\ last.exc = Error(last.asked.a1, "execute", 1)
             /\ last.executed = <<Executed(last.stmt, <<>>, last.pre)>>
             /\ last.reconnects = 0
             /\ last.commits = 0
             /\ in_transaction = last.pre.in_transaction
             /\ conn = last.pre.conn
             /\ cursor = last.pre.cursor
    /\ (last.op = "ddl" /\ last.asked.a1 = "ok" /\ last.asked.a2 \in ErrorClasses)
          => /\ last.result = "raised"
             /\ last.exc = Error(last.asked.a2, "commit", 1)
             /\ Len(last.executed) = 1
             /\ last.reconnects = 0
             /\ in_transaction = last.pre.in_transaction
    /\ last.op = "initialize"
          => LET n == Len(last.executed)
             IN  /\ n \in 1 .. NumSchemaStmts
                 /\ \A i \in 1 .. n :
                       last.executed[i] = Executed(SchemaStmts[i], <<>>, last.pre)
                 /\ last.reconnects = 0
                 /\ IF last.result = "raised"
                       THEN /\ last.stmt = SchemaStmts[n]
                            /\ last.asked.a1 # "ok" \/ last.asked.a2 \in ErrorClasses
                            /\ last.exc = IF last.asked.a1 # "ok"
                                             THEN Error(last.asked.a1, "execute", 1)
                                             ELSE Error(last.asked.a2, "commit", 1)
                            /\ last.commits = IF ~DdlCommits(ddl_implicit_commit) THEN 0
                                              ELSE IF last.asked.a1 # "ok" THEN n - 1
                                              ELSE n
                            /\ in_transaction = IF n = 1 THEN last.pre.in_transaction
                                                ELSE FALSE
                       ELSE /\ n = NumSchemaStmts
                            /\ last.asked.a1 = "ok"
                            /\ last.asked.a2 \in {"ok", Unasked}
                            /\ ~in_transaction

\* C11 witness: initialize() stopped at a schema statement that is neither the
\* first nor the last, raising the error of that statement.
C11_Witness ==
    /\ last.op = "initialize"
    /\ last.result = "raised"
    /\ last.exc.from = "execute"
    /\ Len(last.executed) = 2
    /\ Len(last.executed) < NumSchemaStmts

\* C19: under every binary_type (unset, str, binary, buffer, bytearray,
\* pg-bytea, hex) and for every byte string x, the empty one included,
\* binout(binin(x)) equals x, and from_hex(binout_hex(binin(x))) equals x.
C19_BinaryRoundTrip ==
    (bin_fn = "bin" /\ bin_pc = "done")
        => /\ bin_db = Apply(flavour.binin, bin_x)
           /\ PyEq(bin_out, bin_x)
           /\ PyEq(from_hex(bin_hex), bin_x)

\* C19 witness: a two-byte string that is not its own reverse, with a byte
\* whose hex form starts with 0, has gone through the hex representation.
C19_Witness ==
    /\ bin_fn = "bin"
    /\ bin_pc = "done"
    /\ config["binary_type"] = "hex"
    /\ bin_x = PyStr(<<10, 171>>)
    /\ bin_db = PyStr(<<48, 97, 97, 98>>)
    /\ bin_out = bin_x

\* C20: under every binary_type and for every hash h, hashout(hashin(h))
\* equals h.
C20_HashRoundTrip ==
    (bin_fn = "hash" /\ bin_pc \in {"decode_hex", "done"})
        => /\ bin_db = Apply(flavour.hashin, bin_x)
           /\ Len(bin_x.bytes) = HashBytes
           /\ PyEq(bin_out, bin_x)

\* C20 witness: a hash that is not its own reverse has gone through the hex
\* representation, stored as the hex text of its reversed bytes.
C20_Witness ==
    /\ bin_fn = "hash"
    /\ bin_pc = "done"
    /\ config["binary_type"] = "hex"
    /\ bin_x.bytes[1] = 10
    /\ bin_x.bytes[HashBytes] = 171
    /\ bin_db = PyStr(EncodeHex(Reverse(bin_x.bytes)))
    /\ bin_out = bin_x

\* C14: when the backend takes the probe of VARCHAR(w) exactly when w <= M,
\* configure_max_varchar stores max_varchar = M, for every M from 0 (no
\* positive width works) to the largest width below the starting hi; and it
\* stores that largest width whenever every width it probed was taken.
C14_SearchFindsMaximum ==
    w_pc = "done" =>
        /\ monotone => /\ config["max_varchar"] = str(backend_max)
                       /\ int(config["max_varchar"]) = backend_max
                       /\ lo = backend_max
        /\ (\A i \in DOMAIN probes : probes[i][2] = "match")
              => config["max_varchar"] = str(MaxWidth - 1)

\* C14 witness: a maximum strictly inside the range, found after probes that
\* were taken and probes that were refused.
C14_Witness ==
    /\ w_pc = "done"
    /\ monotone
    /\ backend_max = 5
    /\ config["max_varchar"] = "5"
    /\ \E i, j \in DOMAIN probes : probes[i][2] = "match" /\ probes[j][2] # "match"

\* the probes of one parameter, in the order they were made
ProbesOf(param) == SelectSeq(probed, LAMBDA e : e.param = param)

\* the negotiation has gone past the parameter with a value for it
Adopted(param) == Position(neg_pc.fn) > Position(param)

\* C12: for each parameter negotiated from a list the candidates are probed in
\* the order of the list; a candidate is probed only after every candidate
\* before it returned failure; the value adopted is the candidate whose probe
\* returned success, and it is the last one probed; and when the probe of
\* every candidate has returned failure the negotiation has raised and the
\* parameter is not adopted.
C12_FirstWorkingCandidate ==
    \A param \in ListParams :
        LET ps == ProbesOf(param)
            cands == Candidates(param, args)
            n == Len(ps)
        IN  /\ n <= Len(cands)
            /\ \A i \in 1 .. n : ps[i].val = cands[i]
            /\ \A i \in 1 .. n - 1 : ps[i].result = "False"
            /\ Adopted(param) => /\ n >= 1
                                 /\ ps[n].result = "True"
                                 /\ config[param] = ps[n].val
            /\ (n >= 1 /\ ps[n].result = "True") => Adopted(param)
            /\ (n = Len(cands) /\ ps[n].result = "False")
                  => /\ neg_pc.fn = param
                     /\ neg_pc.exc = NoCandidate(param, args)
            /\ (neg_pc.fn = param /\ neg_pc.exc = NoCandidate(param, args))
                  => /\ n = Len(cands)
                     /\ \A i \in 1 .. n : ps[i].result = "False"

\* C12 witness: the negotiation is over, and the sequence type adopted is the
\* last of its list, after the five before it failed, and the binary type is
\* the fourth of its list.
C12_Witness ==
    /\ neg_pc.fn = "done"
    /\ config["sequence_type"] = "update"
    /\ Len(ProbesOf("sequence_type")) = 6
    /\ config["binary_type"] = "hex"
    /\ Len(ProbesOf("binary_type")) = 4

C21_EmulatedEqualsNative ==
    (lim_pc = "done" /\ limit_style = "emulated") =>
        /\ lim_rows = Execute(lim_stmt, lim_params, lim_table)
        /\ Len(lim_sent.params) =
              Len(lim_params) - (IF limit_re(lim_stmt).group2 = "?" THEN 1 ELSE 0)
        /\ ~limit_re(lim_stmt).match =>
              lim_sent = [stmt |-> lim_stmt, params |-> lim_params]

\* C23: the block metadata cache. Looking up a block whose id is in the
\* cache makes no read of the backend; looking up one that is absent makes
\* exactly one row read of the table block and stores its height, prev_id and
\* search_id under the id, so that the same lookup made again at once reads
\* nothing; cache_block replaces the entry of its id and no other; and no
\* operation removes an entry.
C23_BlockCache ==
    [][LET id == cache_op'.block_id
           load == cache_op'.op = "_load_block"
       IN  /\ DOMAIN _blocks \subseteq DOMAIN _blocks'
           /\ \A i \in DOMAIN _blocks \ {id} : _blocks'[i] = _blocks[i]
           /\ (load /\ id \in DOMAIN _blocks) =>
                 (row_reads' = row_reads /\ _blocks' = _blocks)
           /\ (load /\ id \notin DOMAIN _blocks) =>
                 /\ row_reads' = row_reads + 1
                 /\ id \in DOMAIN _blocks'
                 /\ _blocks'[id] = block_rows[id]
           /\ (load /\ cache_op.op = "_load_block" /\ cache_op.block_id = id) =>
                 row_reads' = row_reads
           /\ cache_op'.op = "cache_block" =>
                 /\ row_reads' = row_reads
                 /\ id \in DOMAIN _blocks'
                 /\ _blocks'[id] \in Updates(id)
                 /\ DOMAIN _blocks' = DOMAIN _blocks \cup {id}
      ]_cache_ops

\* a block that was not in the cache has been looked up twice at a stretch,
\* with one row read, beside a block whose entry cache_block has replaced
C23_Witness ==
    /\ cache_op.op = "_load_block"
    /\ cache_op.hit
    /\ row_reads = 1
    /\ cache_ops = 4
    /\ _blocks[cache_op.block_id] = block_rows[cache_op.block_id]
    /\ \E i \in DOMAIN _blocks : _blocks[i] # block_rows[i]

\* get_lock has returned its lock connection to p, which has not released it
Holds(p) == lock_pc[p] = "holding"

\* C22: the advisory lock gives exclusive access among processes that share a
\* backend with concurrent updates. While one process holds the connection
\* get_lock returned, no other process's get_lock returns a lock connection;
\* release_lock (rollback, then close, of that connection) leaves the row
\* free for the next get_lock; and the pid written to the row of abe_lock is
\* never committed.
C22_LockExclusive ==
    /\ [](concurrent =>
             /\ \A p, q \in Procs : (Holds(p) /\ Holds(q)) => p = q
             /\ \A p \in Procs : Holds(p) => (lock_writer = p /\ lock_conn[p] = "open")
             /\ lock_pid = None)
    /\ [][concurrent =>
             \A p \in Procs :
                /\ Holds(p) => \A q \in Procs \ {p} : ~Holds(q)'
                /\ (Holds(p) /\ ~Holds(p)') =>
                      (lock_writer' = 0 /\ lock_conn'[p] = "closed")
          ]_<<lock_pc, lock_writer, lock_conn>>

\* one process has held the lock and released it, a second holds it now, and
\* the first waits in get_lock for the row
C22_Witness ==
    /\ concurrent
    /\ Len(acquired) >= 2
    /\ acquired[1] # acquired[2]
    /\ Holds(acquired[2])
    /\ lock_pc[acquired[1]] = "update"
    /\ lock_conn[acquired[1]] = "open"

\* the blocks of the chain whose row of chain_candidate has in_longest = 1
InLongest == {r.block_id : r \in {c \in chain_candidate : c.in_longest = 1}}

\* the path of the chain from a tip back to the genesis block
ChainPath(tip) == PathFrom(block_table, tip)

\* C24: after any sequence of insertions and reorganizations the rows of
\* chain_candidate with in_longest = 1 are exactly the path from the tip of
\* the chain (chain_last_block_id) back to the genesis block along
\* prev_block_id; a reorganization from tip A to tip B turns in_longest off
\* on the abandoned path and on along the adopted path and touches no other
\* row, whatever the depth of the fork: none (B stands on A) or the whole
\* chain above the genesis block.
C24_InLongestIsPath ==
    /\ [](/\ InLongest = ChainPath(chain_last_block_id)
          /\ \A r1, r2 \in chain_candidate : r1.block_id = r2.block_id => r1 = r2
          /\ chain_last_block_id # None =>
                \E g \in ChainPath(chain_last_block_id) :
                   block_table[g].block_hash = 1)
    /\ [][chain_last_block_id' # chain_last_block_id =>
             LET A == PathFrom(block_table', chain_last_block_id)
                 B == PathFrom(block_table', chain_last_block_id')
             IN  /\ \A r \in chain_candidate' :
                       /\ r.block_id \in A \ B => r.in_longest = 0
                       /\ r.block_id \in B => r.in_longest = 1
                 /\ \A r \in chain_candidate :
                       r.block_id \notin (A \cup B) => r \in chain_candidate'
                 /\ B \subseteq {r.block_id : r \in chain_candidate'}
          ]_<<chain_last_block_id, chain_candidate>>

\* a reorganization has abandoned the whole chain above the genesis block
C24_Witness ==
    /\ tip_before # None
    /\ chain_last_block_id # tip_before
    /\ Cardinality(ChainPath(tip_before)) >= 2
    /\ Cardinality(ChainPath(tip_before) \cap ChainPath(chain_last_block_id)) = 1
    /\ \A id \in ChainPath(tip_before) \ ChainPath(chain_last_block_id) :
          [block_id |-> id, in_longest |-> 0,
           block_height |-> block_table[id].block_height] \in chain_candidate

\* the hashes of the blocks stored
StoredHashes == {block_table[i].block_hash : i \in DOMAIN block_table}

\* a stored block from which prev_block_id leads back to the genesis block
Linked(id) == \E g \in ChainPath(id) : block_table[g].block_hash = 1

C26_MerkleRootMismatch ==
    /\ [](/\ \A h \in DOMAIN hashPrev :
                MerkleRoot(TxHashes(h)) # DeclaredRoot(h) => h \notin StoredHashes
          /\ import_raised # NoException =>
                /\ import_raised.class = "MerkleRootMismatch"
                /\ "InvalidBlock" \in Bases(import_raised.class)
                /\ \A c \in Bases(import_raised.class) :
                      ~Caught(c) /\ ~RollbackReconnects(c)
                /\ import_raised.block_hash = bad_merkle
                /\ import_raised.tx_hashes = TxHashes(import_raised.block_hash)
                /\ MerkleRoot(import_raised.tx_hashes)
                      # DeclaredRoot(import_raised.block_hash))
    /\ [][import_raised' # NoException =>
             UNCHANGED <<block_table, orphan_block, chain_candidate,
                         chain_last_block_id>>]_chainVars

\* the block of the wrong root was offered after blocks that stand on it: it
\* is rejected and they stay orphans
C26_Witness ==
    /\ import_raised = MerkleRootMismatch(bad_merkle, TxHashes(bad_merkle))
    /\ bad_merkle # 0
    /\ \E o \in orphan_block : o.block_hashPrev = bad_merkle
    /\ Len(block_table) = MaxChainBlocks - 1

\* _test_ddl has returned True: configure_ddl_implicit_commit adopts the
\* candidate of the configuration
DdlAdopted(val) ==
    /\ probe = "_test_ddl"
    /\ p_pc.block = "done"
    /\ p_result = "True"
    /\ config["ddl_implicit_commit"] = val

\* C29: negotiation of DDL auto-commit yields the backend's true behaviour.
\* 'true' is adopted only on a backend where the table created by DDL is
\* still there after the rollback (its DDL commits) and 'false' is adopted,
\* on a backend whose statements fail only for want of the objects they name,
\* only where the rollback removes the table; on such a backend every
\* negotiation adopts a value, and once 'false' is adopted ddl() commits
\* after each schema statement.
C29_DdlCommitNegotiated ==
    /\ DdlAdopted("true") => implicit_commit
    /\ DdlAdopted("false") =>
          /\ faithful => ~implicit_commit
          /\ DdlThenCommit(db) = {Ok(BackendCommit(db))}
    /\ (probe = "_test_ddl" /\ p_pc.block = "done" /\ faithful) =>
          \/ p_result = "True"
          \/ /\ p_result = "False"
             /\ config["ddl_implicit_commit"] = "true"
             /\ ~implicit_commit

\* 'false' is adopted on a backend whose rollback removed the table, after
\* 'true' was tried and refused
C29_Witness ==
    /\ DdlAdopted("false")
    /\ faithful
    /\ ~implicit_commit
    /\ db.committed = db.session

\* 'true' is adopted on a backend whose DDL commits
C29_WitnessTrue ==
    /\ DdlAdopted("true")
    /\ faithful
    /\ implicit_commit

\* the run has done the step
Has(step) == \E i \in DOMAIN did : did[i] = step

\* the steps of initialize()
InitializeSteps == {"configure", "ddl", "create_sequence", "insert", "firstbits",
                    "save_config", "commit"}

\* in a run whose _read_config returned a configuration with schema_version =
\* SCHEMA_VERSION no step of initialize() is made, the database stays as the
\* run found it, and the flavour is built from the values read
MatchingRunSkips ==
    (read # NoConfig /\ read["schema_version"] = SCHEMA_VERSION) =>
        /\ \A step \in InitializeSteps : ~Has(step)
        /\ stored = at_start
        /\ config = read
        /\ s_pc.at = "ready" => flavour = set_sql_flavour(read, module).flavour

\* C15 (as amended): in a run whose _read_config returned a configuration with
\* schema_version = SCHEMA_VERSION no step of initialize() is made - no
\* configure_* probe, no schema DDL, no write - the database stays as the run
\* found it, and the flavour is built from the values read; initialize() runs
\* only in a run whose _read_config returned None, that is when configvar
\* cannot be read or holds no row AND the legacy table config cannot be read.
C15_MatchingVersionSkipsNegotiation ==
    /\ MatchingRunSkips
    /\ (\E step \in InitializeSteps : Has(step)) =>
          /\ read = NoConfig
          /\ read_config(at_start) = NoConfig

\* C15 witness: a second run found the configuration the first run stored and
\* is ready.
C15_Witness ==
    /\ run = 2
    /\ s_pc.at = "ready"
    /\ read # NoConfig
    /\ read["schema_version"] = SCHEMA_VERSION

\* C15 as stated: a run that finds the current schema_version skips the
\* negotiation, and negotiation and schema creation run only when no
\* configuration table can be read.
C15_Original ==
    /\ MatchingRunSkips
    /\ (\E step \in InitializeSteps : Has(step)) =>
          /\ "configvar" \notin at_start.objects_c
          /\ at_start.legacy = NoLegacy

\* C16: in a run whose _read_config returned a schema_version that is not
\* SCHEMA_VERSION, and without args.upgrade, __init__ raises "Please run with
\* --upgrade" right after _read_config: no step of initialize(), no
\* _set_sql_flavour, and the database is as the run found it.
C16_MismatchIsFatal ==
    (/\ read # NoConfig
     /\ read["schema_version"] \notin {Unset, SCHEMA_VERSION}
     /\ ~args.upgrade
     /\ s_pc.at # "dispatch") =>
        /\ s_pc.at = "failed"
        /\ raised = "Please run with --upgrade"
        /\ did = <<"_read_config">>
        /\ flavour = NoFlavour
        /\ stored = at_start

\* C16 witness: a run without --upgrade has failed on the configuration an
\* earlier release stored.
C16_Witness ==
    /\ s_pc.at = "failed"
    /\ raised = "Please run with --upgrade"
    /\ read["schema_version"] = OldSchemaVersion
    /\ stored.rows_c = OldConfig

Initialized == Has("commit") /\ s_pc.at \in {"_set_sql_flavour", "ready"}

\* C18: when initialize() has returned, configvar is committed with one row
\* for each key of store.config, which reads back as the value of the key:
\* the eight negotiated parameters and schema_version = SCHEMA_VERSION among
\* them; and a schema_version = SCHEMA_VERSION is in configvar, committed or
\* not, only when every schema statement and the sequences have been made.
C18_ConfigPersisted ==
    /\ Initialized =>
          /\ "configvar" \in stored.objects_c
          /\ stored.rows_c = stored.rows_s
          /\ \A k \in ConfigKeys : ReadValue(stored.rows_c[k]) = config[k]
          /\ Negotiated \cup {"schema_version"} \subseteq keys(stored.rows_c)
          /\ stored.rows_c["schema_version"] = SCHEMA_VERSION
    /\ stored.rows_s["schema_version"] = SCHEMA_VERSION =>
          SchemaObjects \cup {"sequences"} \subseteq stored.objects_s
    /\ stored.rows_c["schema_version"] = SCHEMA_VERSION =>
          SchemaObjects \cup {"sequences"} \subseteq stored.objects_c

\* C18 witness: initialize() has returned on a backend that keeps '' as NULL,
\* with an empty create_table_epilogue.
C18_Witness ==
    /\ Initialized
    /\ backend.empty_is_null
    /\ config["create_table_epilogue"] = ""
    /\ args.use_firstbits

\* C27: configure_max_varchar ends, whatever the backend answers to its
\* probes: lo < hi all along, every probe makes hi - lo smaller, the loop goes
\* on while hi > lo + 1 and has stopped when hi = lo + 1, and it makes at most
\* WidthBits + 1 probes (hi starts at 2 ^ WidthBits).
C27_SearchTerminates ==
    /\ [](w_pc # "configure_max_varchar" =>
             /\ lo < hi
             /\ (w_pc = "done") <=> (hi = lo + 1)
             /\ Len(probes) <= WidthBits + 1)
    /\ [][w_pc = "while" => hi' - lo' < hi - lo]_<<lo, hi, probes>>
    /\ <>(w_pc = "done")

\* C27 witness: a search that ended after WidthBits + 1 probes, on a backend
\* whose answers follow no maximum.
C27_Witness ==
    /\ w_pc = "done"
    /\ ~monotone
    /\ Len(probes) = WidthBits + 1
    /\ \E i, j \in DOMAIN probes :
          i < j /\ probes[i][2] = "DatabaseError" /\ probes[j][2] = "match"

\* C30: under every binary_type, hashout_hex(hashin(h)) is the hex text of the
\* reversed bytes of h, hashin_hex of that text is the value hashin(h) stores,
\* and hashout of it is h.
C30_HashReversedOnce ==
    (bin_fn = "hash" /\ bin_pc = "encoded_hex")
        => /\ bin_hex = PyStr(EncodeHex(Reverse(bin_x.bytes)))
           /\ bin_db_hex = bin_db
           /\ bin_db_hex = Apply(flavour.hashin_hex, Apply(flavour.hashout_hex, bin_db))
           /\ PyEq(Apply(flavour.hashout, bin_db_hex), bin_x)

\* C30 witness: a hash that is not its own reverse, stored as a buffer, whose
\* hex text has been encoded again.
C30_Witness ==
    /\ bin_fn = "hash"
    /\ bin_pc = "encoded_hex"
    /\ config["binary_type"] = "buffer"
    /\ bin_x.bytes[1] = 10
    /\ bin_x.bytes[HashBytes] = 171
    /\ bin_db_hex = [type |-> "buffer", bytes |-> Reverse(bin_x.bytes)]

\* the order the negotiation is to follow
DependencyOrder ==
    <<"ddl_implicit_commit", "create_table_epilogue", "max_varchar", "clob_type",
      "binary_type", "int_type", "sequence_type", "limit_style">>

\* how far in that order the negotiation is: 0 before it, and past the end
\* when configure() has returned
Reached ==
    IF neg_pc.fn = "configure" THEN 0
    ELSE IF neg_pc.fn = "done" THEN Len(DependencyOrder) + 1
    ELSE CHOOSE i \in DOMAIN DependencyOrder : DependencyOrder[i] = neg_pc.fn

\* the place of a parameter in that order
Place(param) == CHOOSE a \in DOMAIN DependencyOrder : DependencyOrder[a] = param

\* C28: the parameters are negotiated in the order ddl_implicit_commit,
\* create_table_epilogue, max_varchar, clob_type, binary_type, int_type,
\* sequence_type, limit_style: the probes are made in that order, while a
\* parameter is negotiated every parameter before it has its value, and the
\* value of a parameter the negotiation has gone past does not change.
C28_NegotiationOrder ==
    /\ [](/\ \A i \in 1 .. Len(probed) - 1 :
                Place(probed[i].param) <= Place(probed[i + 1].param)
          /\ probed # <<>> => Place(probed[Len(probed)].param) <= Reached
          /\ \A a \in DOMAIN DependencyOrder :
                a < Reached => config[DependencyOrder[a]] \notin {Unset, "NoneType"})
    /\ [][\A a \in DOMAIN DependencyOrder :
             a < Reached => config'[DependencyOrder[a]] = config[DependencyOrder[a]]
         ]_<<config, neg_pc>>

\* C28 witness: the negotiation has ended after probes of the first and of the
\* last parameter that were refused before one was taken.
C28_Witness ==
    /\ neg_pc.fn = "done"
    /\ config["ddl_implicit_commit"] = "false"
    /\ config["limit_style"] = "emulated"
    /\ config["clob_type"] = NO_CLOB

\* a piece of the statement given to ddl() that is a VARCHAR when the
\* downgrade sees it: a VARCHAR(w), or under the hex representation a
\* BIT VARYING(n), which is then VARCHAR(n / 4)
VarcharWidth(piece) ==
    IF piece.k = "VARCHAR" THEN piece.n
    ELSE IF piece.k = "BIT VARYING" /\ config["binary_type"] = "hex" THEN piece.n \div 4
    ELSE None

\* C31: in ddl() a VARCHAR(w) is replaced by the negotiated large-text type
\* if and only if w > max_varchar and a large-text type was found (clob_type
\* is not NO_CLOB), and is VARCHAR(w) otherwise; the downgrade follows the
\* rewrite of the bit-string types, so that under the hex representation
\* BIT VARYING(n) is VARCHAR(n / 4) and is downgraded when n / 4 >
\* max_varchar; while max_varchar or clob_type is not configured the
\* statement is as the transform left it.
C31_VarcharDowngrade ==
    rw_pc = "ddl" =>
        /\ \A i \in DOMAIN rw_stmt :
              LET w == VarcharWidth(rw_stmt[i])
                  downgraded == /\ config["max_varchar"] # Unset
                                /\ config["clob_type"] \notin {Unset, NO_CLOB}
                                /\ w > int(config["max_varchar"])
              IN  IF w # None
                     THEN rw_out[i] = IF downgraded
                                         THEN Tok(config["clob_type"], 0, "")
                                         ELSE TypeOf("VARCHAR", w)
                     ELSE rw_out[i].k \notin {"VARCHAR", config["clob_type"]}
        /\ (config["max_varchar"] = Unset \/ config["clob_type"] = Unset) =>
              SubSeq(rw_out, 1, Len(rw_stmt))
                  = sql_transform(flavour.sql_transform, rw_stmt)

\* under the hex representation and max_varchar 4, of one statement the
\* BIT VARYING(20) is downgraded and the VARCHAR(3) is not
C31_Witness ==
    /\ rw_pc = "ddl"
    /\ config["binary_type"] = "hex"
    /\ config["max_varchar"] = str(4)
    /\ config["clob_type"] = "CLOB"
    /\ Len(rw_stmt) >= 6
    /\ rw_stmt[4] = TypeOf("BIT VARYING", 20)
    /\ rw_stmt[6] = TypeOf("VARCHAR", 3)
    /\ rw_out[4] = Tok("CLOB", 0, "")
    /\ rw_out[6] = TypeOf("VARCHAR", 3)

\* the pieces that are a placeholder of some style
Placeholders == {"?", "%s", ":p"}

\* C32: the conversion of placeholders keeps their number and their order.
\* Under the driver style 'named' the i-th ? of a statement, from the left
\* and from 1 in every statement, is :p<i>; under 'format' and 'pyformat'
\* every ? is %s and every % is doubled; under 'qmark' they stay as they are.
C32_PlaceholdersConverted ==
    rw_pc \in {"sql", "ddl"} =>
        /\ Len(rw_out) >= Len(rw_stmt)
        /\ \A i \in DOMAIN rw_stmt :
              LET piece == rw_stmt[i]
              IN  CASE piece = Qmark ->
                         rw_out[i] =
                            CASE module.paramstyle = "named" ->
                                    Tok(":p", Cardinality({j \in 1..i : rw_stmt[j] = Qmark}), "")
                              [] module.paramstyle \in {"format", "pyformat"} ->
                                    Tok("%s", 0, "")
                              [] OTHER -> Qmark
                    [] piece = Percent ->
                         rw_out[i] = IF module.paramstyle \in {"format", "pyformat"}
                                        THEN Tok("%%", 0, "") ELSE Percent
                    [] OTHER -> rw_out[i].k \notin Placeholders \cup {"%", "%%"}
        /\ \A i \in DOMAIN rw_out \ DOMAIN rw_stmt : rw_out[i].k \notin Placeholders

\* a statement of three ? under the style 'named', and their three names
C32_Witness ==
    /\ rw_pc = "sql"
    /\ module.paramstyle = "named"
    /\ rw_stmt = <<Qmark, Qmark, Qmark>>
    /\ rw_out = <<Tok(":p", 1, ""), Tok(":p", 2, ""), Tok(":p", 3, "")>>

\* C33: after every ddl() that returned in_transaction is False, whether
\* ddl_implicit_commit is 'true' or 'false'; so a statement of the next sql()
\* that fails with an error _execute catches, auto_reconnect being on, is
\* answered by a reconnect.
C33_NoTransactionAfterDdl ==
    /\ []((last.op = "ddl" /\ last.result = "returned") => ~in_transaction)
    /\ [][(/\ last.op = "ddl"
            /\ last.result = "returned"
            /\ auto_reconnect
            /\ last'.op = "sql"
            /\ Caught(last'.asked.a1))
              => /\ ~last'.pre.in_transaction
                 /\ last'.reconnects = 1]_vars

\* C33 witness: a schema statement that returned under ddl_implicit_commit
\* 'true' in a store that had a transaction open.
C33_Witness ==
    /\ last.op = "ddl"
    /\ last.result = "returned"
    /\ ddl_implicit_commit = "true"
    /\ last.pre.in_transaction
    /\ auto_reconnect
    /\ ~in_transaction

\* C34: after any sql(), returned or raised, retried after a reconnect or
\* not, in_transaction is True; so a statement of a sql() that follows a
\* sql() and fails is executed once, never retried, and nothing reconnects.
C34_TransactionAfterSql ==
    /\ [](last.op = "sql" => in_transaction)
    /\ [][(/\ last.op = "sql"
            /\ last'.op = "sql"
            /\ last'.asked.a1 # "ok")
              => /\ last'.result = "raised"
                 /\ last'.reconnects = 0
                 /\ Len(last'.executed) = 1
                 /\ conn' = conn
                 /\ cursor' = cursor]_vars

\* C34 witness: a sql() that reconnected, executed its statement again and
\* raised the error of the second attempt.
C34_Witness ==
    /\ last.op = "sql"
    /\ last.reconnects = 1
    /\ Len(last.executed) = 2
    /\ last.result = "raised"
    /\ in_transaction

\* C35 as stated: after commit() or rollback() returned in_transaction is
\* False, and a rollback() that hits an OperationalError does not raise but
\* returns with the connection and the cursor replaced and in_transaction
\* False.
C35_RollbackAlwaysReconnects ==
    /\ (last.op \in {"commit", "rollback"} /\ last.result = "returned")
          => ~in_transaction
    /\ (last.op = "rollback" /\ last.asked.a1 = "OperationalError")
          => /\ last.result = "returned"
             /\ conn # last.pre.conn
             /\ cursor = conn
             /\ ~in_transaction

\* C35 amended: after commit() or rollback() returned in_transaction is
\* False; a rollback() that hits an OperationalError never raises that error
\* but reconnects: when the new connection and cursor can be opened it returns
\* with both replaced and in_transaction False, and when they cannot, the
\* error of opening them is raised, with in_transaction as it was.
C35_RollbackReconnects ==
    /\ (last.op \in {"commit", "rollback"} /\ last.result = "returned")
          => ~in_transaction
    /\ (last.op = "rollback" /\ last.asked.a1 = "OperationalError")
          => /\ last.reconnects = 1
             /\ last.exc.from # "rollback"
             /\ IF last.asked.open = "ok"
                   THEN /\ last.result = "returned"
                        /\ conn = opened
                        /\ conn # last.pre.conn
                        /\ cursor = conn
                        /\ ~in_transaction
                   ELSE /\ last.result = "raised"
                        /\ last.exc.from \in {"connect", "cursor"}
                        /\ cursor = last.pre.cursor
                        /\ in_transaction = last.pre.in_transaction

\* C35 witness: a rollback() of an open transaction that hit an
\* OperationalError and returned on a new connection.
C35_Witness ==
    /\ last.op = "rollback"
    /\ last.asked.a1 = "OperationalError"
    /\ last.result = "returned"
    /\ last.pre.in_transaction
    /\ conn # last.pre.conn
    /\ ~in_transaction

\* the configuration holds a value _set_sql_flavour does not support
UnsupportedConfig(cfg) ==
    \E param \in {"binary_type", "int_type", "sequence_type"} : cfg[param] = Unsupported

\* C36: _set_sql_flavour is all-or-nothing.  Under a configuration with an
\* unsupported binary_type, int_type or sequence_type it raises and the
\* transform, the statement cache, the encoders and decoders and the
\* allocation functions of the store are the ones installed before; otherwise
\* it returns and all of them are the ones the configuration selects, with an
\* empty cache.
C36_FlavourAllOrNothing ==
    [][st_last'.op = "_set_sql_flavour" =>
          IF UnsupportedConfig(config')
             THEN /\ st_last'.raised
                  /\ flavour' = flavour
                  /\ _sql_cache' = _sql_cache
             ELSE LET bin == fix_lob(BinaryFunctions(config'["binary_type"]), module.LOB)
                      val == config'["sequence_type"]
                  IN  /\ ~st_last'.raised
                      /\ _sql_cache' = EmptyCache
                      /\ flavour'.sql_transform =
                            IntFunctions(config'["int_type"]).transform
                               \o BinaryFunctions(config'["binary_type"]).transform
                               \o ParamstyleTransform(module.paramstyle)
                      /\ \A f \in {"binin", "binin_hex", "binout", "binout_hex", "hashin",
                                    "hashin_hex", "hashout", "hashout_hex"} :
                            flavour'[f] = bin[f]
                      /\ flavour'.intin = IntFunctions(config'["int_type"]).intin
                      /\ flavour'.new_id = NewIdImpl(val)
                      /\ flavour'.create_sequence = CreateImpl(val)
                      /\ flavour'.drop_sequence = DropImpl(val)
                      /\ flavour'.selectall = Selectall(config'["limit_style"])]_vars

\* C36 witness: _set_sql_flavour raised on an unsupported int_type in a store
\* that has the functions of binary_type 'hex' and int_type 'str' installed
\* and a statement in its cache.
C36_Witness ==
    /\ st_last.op = "_set_sql_flavour"
    /\ st_last.raised
    /\ config["int_type"] = Unsupported
    /\ config["binary_type"] = "hex"
    /\ flavour.binin = <<"to_hex">>
    /\ flavour.intin = <<"str">>
    /\ _sql_cache # EmptyCache

\* C37: every entry of _sql_cache maps a statement to what the installed
\* sql_transform makes of it; no statement is rewritten twice between two
\* rebuilds of the flavour; and the statement sql() hands to _execute is the
\* rewriting of its argument by the transform installed now.
C37_CacheConsistent ==
    /\ \A s \in DOMAIN _sql_cache :
          _sql_cache[s] = sql_transform(flavour.sql_transform, s)
    /\ ~st_last.again
    /\ st_last.op = "sql" =>
          /\ st_last.stmt \in DOMAIN _sql_cache
          /\ st_last.sent = sql_transform(flavour.sql_transform, st_last.stmt)

\* C37 witness: a statement with a hexadecimal literal sent as binary_type
\* 'pg-bytea' rewrites it, by a store that was rebuilt for 'hex' before and
\* for int_type 'str' since, the only statement in the cache.
C37_Witness ==
    /\ st_last.op = "sql"
    /\ st_last.stmt = <<HexLiteral("ab"), Qmark>>
    /\ config["binary_type"] = "pg-bytea"
    /\ config["int_type"] = "str"
    /\ st_last.sent = sql_binary_as_bytea(st_last.stmt)
    /\ st_last.sent # sql_binary_as_hex(st_last.stmt)
    /\ DOMAIN _sql_cache = {st_last.stmt}

\* get_lock of p has returned
Returned(p) == lock_pc[p] \in {"holding", "returned None"}

\* C38: get_lock leaves no row in configvar.  The probe row is written in the
\* open transaction of the store connection only and that transaction is
\* rolled back before get_lock returns, whether the INSERT succeeded or
\* failed; after a failed INSERT the lock connection is rolled back and
\* closed and get_lock returns None, after an INSERT that succeeded it
\* returns the open connection; and below Abe26 it returns None with no
\* connection opened and no row written.
C38_ProbeRowRolledBack ==
    \A p \in Procs :
        /\ Returned(p) => ~store_txn[p]
        /\ lock_pc[p] = "rollback" => (store_txn[p] <=> lock_conn[p] = "open")
        /\ lock_pc[p] = "rollback" /\ ~store_txn[p]
              => (lock_conn[p] = "closed" /\ lock_writer # p)
        /\ lock_pc[p] = "holding" => lock_conn[p] = "open"
        /\ (lock_pc[p] = "returned None" /\ ~below_abe26[p])
              => (lock_conn[p] = "closed" /\ lock_writer # p)
        /\ below_abe26[p]
              => /\ lock_pc[p] \in {"get_lock", "returned None"}
                 /\ lock_conn[p] = "none"
                 /\ ~store_txn[p]
                 /\ lock_writer # p

\* C38 witness: on a backend without concurrent updates get_lock of a store
\* at Abe26 or later has returned None, its lock connection closed, and the
\* get_lock of a store below Abe26 has returned None too.
C38_Witness ==
    /\ ~concurrent
    /\ \E p, q \in Procs :
          /\ ~below_abe26[p]
          /\ lock_pc[p] = "returned None"
          /\ lock_conn[p] = "closed"
          /\ ~store_txn[p]
          /\ below_abe26[q]
          /\ lock_pc[q] = "returned None"

\* C39: create(key) of the counter table commits the open transaction first;
\* when its INSERT fails it rolls back, tries CREATE TABLE abe_sequences and
\* inserts again; when the CREATE TABLE fails too, as it does when the table
\* and a row of the key exist, it rolls back and raises the error of the
\* first INSERT, and the counters are as the store saw them before the call.
\* allocate(key) of a key without a row raises and changes no counter.
C39_CounterCreate ==
    [][/\ ct_last'.op = "create" =>
             LET key == ct_last'.key
                 steps == ct_last'.steps
             IN  /\ steps[1] = "commit"
                 /\ ct_work.table => ct_db'.table
                 /\ \A k \in Keys :
                       ct_work.rows[k] # None => ct_db'.rows[k] = ct_work.rows[k]
                 /\ steps \in {<<"commit", "INSERT">>,
                               <<"commit", "INSERT", "rollback", "CREATE TABLE", "INSERT">>,
                               <<"commit", "INSERT", "rollback", "CREATE TABLE", "rollback">>}
                 /\ Len(steps) = 2 =>
                       /\ ct_last'.result = "returned"
                       /\ ct_work.rows[key] = None
                       /\ ct_work'.rows[key] # None
                 /\ (Len(steps) = 5 /\ steps[5] = "rollback") =>
                       /\ ct_last'.result = "raised"
                       /\ ct_last'.exc = "INSERT"
                       /\ ct_work' = ct_work
                       /\ ct_db' = ct_work
                 /\ (ct_work.table /\ ct_work.rows[key] # None) =>
                       /\ steps = <<"commit", "INSERT", "rollback", "CREATE TABLE",
                                    "rollback">>
                       /\ ct_work'.rows[key] = ct_work.rows[key]
       /\ (ct_last'.op = "new_id" /\ ct_work.rows[ct_last'.key] = None) =>
             /\ ct_last'.result = "raised"
             /\ ct_work' = ct_work
             /\ ct_db' = ct_db]_vars

\* C39 witness: create(key) met the table and a row of the key with nextid 3,
\* raised the error of its INSERT after the second rollback, and the row is
\* there with nextid 3, committed.
C39_Witness ==
    /\ ct_last.op = "create"
    /\ ct_last.result = "raised"
    /\ ct_last.exc = "INSERT"
    /\ ct_last.steps = <<"commit", "INSERT", "rollback", "CREATE TABLE", "rollback">>
    /\ ct_work.rows[ct_last.key] = 3
    /\ ct_db.rows[ct_last.key] = 3

\* the large-text types configure_clob_type tries, in its order
ClobTypes == <<"CLOB", "LONGTEXT", "TEXT", "LONG">>

====
